---- MODULE Spec2Model ----
(***************************************************************************)
(* Tax-notice analysis backend: the PDF text-extraction pipeline with OCR  *)
(* fallback (pdf_extractor.py), the LLM client with its response repair    *)
(* pipeline (gemini_api.py) and the /summarize handler (app.py).           *)
(*                                                                         *)
(* A text is a sequence of characters; a character is a one-character      *)
(* string.  Characters that cannot be written as a TLA+ string literal     *)
(* have a name (BACKTICK, E_ACUTE).                                        *)
(***************************************************************************)
EXTENDS Integers, Sequences, FiniteSets, TLC

\* ------------------------------------------------------------ characters

NL == "\n"
TAB == "\t"
CR == "\r"
SP == " "
\* a non-ASCII letter (U+00E9); str.isalpha() is true of it
E_ACUTE == "U+00E9"

UpperSeq ==
  << "A","B","C","D","E","F","G","H","I","J","K","L","M",
     "N","O","P","Q","R","S","T","U","V","W","X","Y","Z" >>
LowerSeq ==
  << "a","b","c","d","e","f","g","h","i","j","k","l","m",
     "n","o","p","q","r","s","t","u","v","w","x","y","z" >>

UpperChars == { UpperSeq[i] : i \in 1..26 }
LowerChars == { LowerSeq[i] : i \in 1..26 }
DigitChars == { "0","1","2","3","4","5","6","7","8","9" }
\* the class [,.!?;:] of clean_extracted_text
PunctChars == { ",", ".", "!", "?", ";", ":" }
\* the class \s of the re module, as far as the alphabet goes
WhiteChars == { SP, TAB, NL, CR }
NonAsciiChars == { E_ACUTE }

IsAlpha(c) == c \in UpperChars \cup LowerChars \cup NonAsciiChars
IsDigit(c) == c \in DigitChars
\* the class \w, which decides \b
IsWordChar(c) == IsAlpha(c) \/ IsDigit(c) \/ c = "_"

\* str.lower() on one character
ToLowerChar(c) ==
  IF c \in UpperChars
    THEN LowerSeq[CHOOSE i \in 1..26 : UpperSeq[i] = c]
    ELSE c

\* str.upper() on one character
ToUpperChar(c) ==
  IF c \in LowerChars
    THEN UpperSeq[CHOOSE i \in 1..26 : LowerSeq[i] = c]
    ELSE c

\* ------------------------------------------------------ string helpers

\* str.lower()
Lower(t) == [i \in 1..Len(t) |-> ToLowerChar(t[i])]

\* str.upper()
Upper(t) == [i \in 1..Len(t) |-> ToUpperChar(t[i])]

\* c * n
Rep(c, n) == [i \in 1..n |-> c]

\* the index of the first character of t that is not white space, Len(t)+1
\* when there is none
RECURSIVE FirstNonWhite(_, _)
FirstNonWhite(t, i) ==
  IF i > Len(t) THEN i
  ELSE IF t[i] \in WhiteChars THEN FirstNonWhite(t, i + 1)
  ELSE i

\* the index of the last character of t that is not white space, 0 when
\* there is none
RECURSIVE LastNonWhite(_, _)
LastNonWhite(t, i) ==
  IF i < 1 THEN 0
  ELSE IF t[i] \in WhiteChars THEN LastNonWhite(t, i - 1)
  ELSE i

\* str.strip()
Strip(t) == SubSeq(t, FirstNonWhite(t, 1), LastNonWhite(t, Len(t)))

\* `k in t` for strings: k occurs in t as a substring
Contains(t, k) ==
  \E i \in 1..(Len(t) - Len(k) + 1) :
    \A j \in 1..Len(k) : t[i + j - 1] = k[j]

\* the number of characters of t that satisfy the test
CountIn(t, S) == Cardinality({ i \in 1..Len(t) : t[i] \in S })

\* the end of the maximal run of characters of S that starts at i
\* (i - 1 when t[i] is not in S)
RECURSIVE RunEnd(_, _, _)
RunEnd(t, S, i) ==
  IF i > Len(t) \/ t[i] \notin S THEN i - 1
  ELSE RunEnd(t, S, i + 1)

\* the start of the maximal run of characters of S that ends at i
\* (i + 1 when t[i] is not in S)
RECURSIVE RunStart(_, _, _)
RunStart(t, S, i) ==
  IF i < 1 \/ t[i] \notin S THEN i + 1
  ELSE RunStart(t, S, i - 1)

\* parts[lo] \o ... \o parts[hi]
RECURSIVE FlattenRange(_, _, _)
FlattenRange(parts, lo, hi) ==
  IF lo > hi THEN << >>
  ELSE IF lo = hi THEN parts[lo]
  ELSE LET mid == (lo + hi) \div 2
       IN  FlattenRange(parts, lo, mid) \o FlattenRange(parts, mid + 1, hi)

\* re.sub, when what a match is replaced by can be told character by
\* character: Piece(t, i) is what the character at i leaves in the result
SubEach(t, Piece(_, _)) ==
  FlattenRange([i \in 1..Len(t) |-> Piece(t, i)], 1, Len(t))

\* ------------------------------------------- pdf_extractor.py: cleaning

\* re.sub(r'\n\s*\n\s*\n', '\n\n', t): a white-space run that holds at
\* least three newlines matches from its first newline to its last
CollapsePiece(t, i) ==
  IF t[i] \notin WhiteChars THEN << t[i] >>
  ELSE LET a == RunStart(t, WhiteChars, i)
           e == RunEnd(t, WhiteChars, i)
           nls == { j \in a..e : t[j] = NL }
       IN  IF Cardinality(nls) < 3 THEN << t[i] >>
           ELSE LET firstNl == CHOOSE j \in nls : \A k \in nls : j <= k
                    lastNl == CHOOSE j \in nls : \A k \in nls : k <= j
                IN  IF i = firstNl THEN << NL, NL >>
                    ELSE IF i > firstNl /\ i <= lastNl THEN << >>
                    ELSE << t[i] >>

\* re.sub(r'[ \t]+', ' ', t)
BlankRunPiece(t, i) ==
  IF t[i] \notin {SP, TAB} THEN << t[i] >>
  ELSE IF i = 1 \/ t[i - 1] \notin {SP, TAB} THEN << SP >>
  ELSE << >>

\* re.sub(r'[^\x00-\x7F]+', '', t)
AsciiPiece(t, i) == IF t[i] \in NonAsciiChars THEN << >> ELSE << t[i] >>

\* re.sub(r'\|{2,}', '', t)
PipePiece(t, i) ==
  IF t[i] = "|" /\ RunEnd(t, {"|"}, i) - RunStart(t, {"|"}, i) + 1 >= 2
    THEN << >> ELSE << t[i] >>

\* re.sub(r'_{3,}', '', t)
UnderscorePiece(t, i) ==
  IF t[i] = "_" /\ RunEnd(t, {"_"}, i) - RunStart(t, {"_"}, i) + 1 >= 3
    THEN << >> ELSE << t[i] >>

\* re.sub(r'\s+([,.!?;:])', r'\1', t): white space before punctuation goes
BeforePunctPiece(t, i) ==
  IF t[i] \notin WhiteChars THEN << t[i] >>
  ELSE LET e == RunEnd(t, WhiteChars, i)
       IN  IF e + 1 <= Len(t) /\ t[e + 1] \in PunctChars
             THEN << >> ELSE << t[i] >>

\* re.sub(r'([,.!?;:])\s*([A-Z])', r'\1 \2', t): one space between
\* punctuation and a capital letter
AfterPunctPiece(t, i) ==
  IF t[i] \in PunctChars
    THEN LET e == RunEnd(t, WhiteChars, i + 1)
         IN  IF e + 1 <= Len(t) /\ t[e + 1] \in UpperChars
               THEN << t[i], SP >> ELSE << t[i] >>
  ELSE IF t[i] \in WhiteChars
    THEN LET a == RunStart(t, WhiteChars, i)
             e == RunEnd(t, WhiteChars, i)
         IN  IF /\ a >= 2
                /\ t[a - 1] \in PunctChars
                /\ e + 1 <= Len(t)
                /\ t[e + 1] \in UpperChars
               THEN << >> ELSE << t[i] >>
  ELSE << t[i] >>

\* re.sub(r'\b<d>(?=[A-Z])', <l>, t): the digit d at the start of a word
\* and before a capital letter becomes the letter l
FixOcrDigit(t, d, l) ==
  [i \in 1..Len(t) |->
     IF /\ t[i] = d
        /\ (i = 1 \/ ~IsWordChar(t[i - 1]))
        /\ i < Len(t)
        /\ t[i + 1] \in UpperChars
       THEN l ELSE t[i]]

clean_extracted_text(text) ==
  IF text = << >> THEN << >>
  ELSE
    LET t1 == SubEach(text, CollapsePiece)
        t2 == SubEach(t1, BlankRunPiece)
        t3 == SubEach(t2, AsciiPiece)
        t4 == SubEach(t3, PipePiece)
        t5 == SubEach(t4, UnderscorePiece)
        t6 == SubEach(t5, BeforePunctPiece)
        t7 == SubEach(t6, AfterPunctPiece)
        t8 == FixOcrDigit(t7, "0", "O")
        t9 == FixOcrDigit(t8, "1", "I")
    IN  Strip(t9)

\* ---------------------------------- pdf_extractor.py: is_meaningful_text

\* len(text.strip()) < MinMeaningfulLen is rejected
MinMeaningfulLen == 30

\* alphanumeric_ratio is compared with RatioNum / RatioDen (0.4) and with
\* KeywordRatioNum / RatioDen (0.25); the comparisons are made on integers
RatioDen == 100
RatioNum == 40
KeywordRatioNum == 25

tax_keywords ==
  { << "i","r","s" >>, << "t","a","x" >>, << "n","o","t","i","c","e" >>,
    << "p","a","y","m","e","n","t" >>, << "d","u","e" >>,
    << "a","m","o","u","n","t" >>, << "b","a","l","a","n","c","e" >>,
    << "s","o","c","i","a","l"," ","s","e","c","u","r","i","t","y" >>,
    << "s","s","n" >>, << "f","o","r","m" >>, << "r","e","t","u","r","n" >>,
    << "r","e","f","u","n","d" >>, << "c","p" >>,
    << "l","e","t","t","e","r" >>,
    << "d","e","p","a","r","t","m","e","n","t" >>,
    << "t","r","e","a","s","u","r","y" >>,
    << "i","n","t","e","r","n","a","l"," ","r","e","v","e","n","u","e" >> }

\* letters + digits
total_alphanumeric(text) ==
  Cardinality({ i \in 1..Len(text) : IsAlpha(text[i]) \/ IsDigit(text[i]) })

\* len(text.replace(' ', '').replace('\n', '').replace('\t', ''))
total_chars(text) ==
  Cardinality({ i \in 1..Len(text) : text[i] \notin {SP, NL, TAB} })

keyword_found(text) ==
  LET text_lower == Lower(text)
  IN  \E keyword \in tax_keywords : Contains(text_lower, keyword)

\* alphanumeric_ratio < num / RatioDen
RatioBelow(text, num) ==
  total_alphanumeric(text) * RatioDen < num * total_chars(text)

\* alphanumeric_ratio > num / RatioDen
RatioAbove(text, num) ==
  total_alphanumeric(text) * RatioDen > num * total_chars(text)

is_meaningful_text(text) ==
  IF text = << >> \/ Len(Strip(text)) < MinMeaningfulLen THEN FALSE
  ELSE IF total_chars(text) = 0 THEN FALSE
  ELSE IF RatioBelow(text, RatioNum) THEN FALSE
  ELSE IF keyword_found(text) /\ RatioAbove(text, KeywordRatioNum) THEN TRUE
  ELSE RatioAbove(text, RatioNum)

\* ------------------------------- pdf_extractor.py: extract_text_from_dict

\* Optional[str]: None, or a string
NoneStr == [some |-> FALSE, text |-> << >>]
Some(t) == [some |-> TRUE, text |-> t]
\* the truth value Python gives an Optional[str]: None and "" are false
Truthy(o) == o.some /\ o.text # << >>

\* str.join
RECURSIVE Join(_, _)
Join(sep, parts) ==
  IF parts = << >> THEN << >>
  ELSE IF Len(parts) = 1 THEN parts[1]
  ELSE parts[1] \o sep \o Join(sep, Tail(parts))

\* the concatenation of the strings of a sequence
RECURSIVE Concat(_)
Concat(parts) ==
  IF parts = << >> THEN << >> ELSE parts[1] \o Concat(Tail(parts))

\* A block of PyMuPDF's "dict" output: a text block has "lines" (each a
\* sequence of span texts), an image block has neither "lines" nor "text",
\* and a block may carry a plain "text".
TextBlock(lines) == [has_lines |-> TRUE, lines |-> lines,
                     has_text |-> FALSE, text |-> << >>]
ImageBlock == [has_lines |-> FALSE, lines |-> << >>,
               has_text |-> FALSE, text |-> << >>]
PlainBlock(t) == [has_lines |-> FALSE, lines |-> << >>,
                  has_text |-> TRUE, text |-> t]

\* the inner loop over block["lines"]: block_text += line_text + "\n" for
\* every line whose spans join to a non-blank line_text
RECURSIVE block_lines_text(_)
block_lines_text(lines) ==
  IF lines = << >> THEN << >>
  ELSE LET line_text == Concat(lines[1])
       IN  (IF Strip(line_text) # << >> THEN line_text \o << NL >> ELSE << >>)
             \o block_lines_text(Tail(lines))

block_text_of(block) ==
  IF block.has_lines THEN block_lines_text(block.lines)
  ELSE IF block.has_text THEN block.text
  ELSE << >>

\* text_parts: the block texts that are not blank, in block order
RECURSIVE text_parts_of(_)
text_parts_of(blocks) ==
  IF blocks = << >> THEN << >>
  ELSE LET block_text == block_text_of(blocks[1])
       IN  (IF Strip(block_text) # << >> THEN << block_text >> ELSE << >>)
             \o text_parts_of(Tail(blocks))

extract_text_from_dict(text_dict) == Join(<< NL >>, text_parts_of(text_dict))

\* ------------------------------------------------------- the documents

\* 'IRS Notice CP503C: balance due $1,234.56. Pay by May 1, 2024 now.'
T_NOTICE ==
  << "I", "R", "S", " ", "N", "o", "t", "i", "c", "e", " ", "C", "P", "5",
     "0", "3", "C", ":", " ", "b", "a", "l", "a", "n", "c", "e", " ", "d",
     "u", "e", " ", "$", "1", ",", "2", "3", "4", ".", "5", "6", ".", " ",
     "P", "a", "y", " ", "b", "y", " ", "M", "a", "y", " ", "1", ",", " ",
     "2", "0", "2", "4", " ", "n", "o", "w", "." >>

\* the spans 'Letter ' and '525' of one line of a text block
T_SPAN_A == << "L", "e", "t", "t", "e", "r", " " >>
T_SPAN_B == << "5", "2", "5" >>

\* 'tax notice ####################': a keyword, and a ratio of 9/29
T_NOISY ==
  << "t", "a", "x", " ", "n", "o", "t", "i", "c", "e", " " >> \o Rep("#", 20)

\* '||||': not blank, and nothing is left of it after cleaning
T_ARTIFACT == << "|", "|", "|", "|" >>

\* ' \n'
T_BLANK == << SP, NL >>

\* 'Department of the Treasury notice CP503C amount due $1,234.56 today'
O_NOTICE ==
  << "D", "e", "p", "a", "r", "t", "m", "e", "n", "t", " ", "o", "f", " ",
     "t", "h", "e", " ", "T", "r", "e", "a", "s", "u", "r", "y", " ", "n",
     "o", "t", "i", "c", "e", " ", "C", "P", "5", "0", "3", "C", " ", "a",
     "m", "o", "u", "n", "t", " ", "d", "u", "e", " ", "$", "1", ",", "2",
     "3", "4", ".", "5", "6", " ", "t", "o", "d", "a", "y" >>

\* '|||': table borders, the only thing the OCR saw
O_ARTIFACT == << "|", "|", "|" >>

\* what a call of the library answers: it raises, or it returns a value
Raises == [raises |-> TRUE, text |-> << >>, dict |-> << >>]
Returns(t) == [raises |-> FALSE, text |-> t, dict |-> << >>]
ReturnsDict(d) == [raises |-> FALSE, text |-> << >>, dict |-> d]

\* What the libraries answer for a page, by the kind of the page:
\*   load  doc[page_num] succeeds (it raises otherwise)
\*   m1    page.get_text()
\*   m2    page.get_text("dict")
\*   m3    page.get_text("text", flags=...)
\*   pix   get_pixmap .. enhance_image_for_ocr succeeds
\*   ocr   pytesseract.image_to_string(image)
PageKinds ==
  { "native", "short", "scan", "lines", "faint", "layout", "broken",
    "artifact" }

Page(kind) ==
  CASE kind = "native" ->
         [load |-> TRUE, m1 |-> Returns(T_NOTICE),
          m2 |-> ReturnsDict(<< PlainBlock(T_NOTICE) >>),
          m3 |-> Returns(T_NOTICE), pix |-> TRUE, ocr |-> Returns(O_NOTICE)]
    [] kind = "short" ->
         [load |-> TRUE, m1 |-> Raises,
          m2 |-> ReturnsDict(<< ImageBlock,
                                TextBlock(<< << T_SPAN_A, T_SPAN_B >>,
                                             << T_BLANK >> >>) >>),
          m3 |-> Returns(T_SPAN_B), pix |-> TRUE, ocr |-> Returns(T_BLANK)]
    [] kind = "scan" ->
         [load |-> TRUE, m1 |-> Returns(<< >>),
          m2 |-> ReturnsDict(<< ImageBlock >>),
          m3 |-> Returns(T_BLANK), pix |-> TRUE, ocr |-> Returns(O_NOTICE)]
    [] kind = "lines" ->
         [load |-> TRUE, m1 |-> Returns(T_BLANK), m2 |-> Raises,
          m3 |-> Raises, pix |-> TRUE, ocr |-> Returns(O_ARTIFACT)]
    [] kind = "faint" ->
         [load |-> TRUE, m1 |-> Returns(<< >>),
          m2 |-> ReturnsDict(<< >>),
          m3 |-> Returns(<< >>), pix |-> TRUE, ocr |-> Returns(T_SPAN_B)]
    [] kind = "layout" ->
         [load |-> TRUE, m1 |-> Returns(<< >>),
          m2 |-> ReturnsDict(<< PlainBlock(T_BLANK) >>),
          m3 |-> Returns(T_NOISY), pix |-> TRUE, ocr |-> Raises]
    [] kind = "broken" ->
         [load |-> FALSE, m1 |-> Raises, m2 |-> Raises, m3 |-> Raises,
          pix |-> FALSE, ocr |-> Raises]
    [] kind = "artifact" ->
         [load |-> TRUE, m1 |-> Returns(T_ARTIFACT),
          m2 |-> ReturnsDict(<< PlainBlock(T_ARTIFACT) >>),
          m3 |-> Returns(T_ARTIFACT), pix |-> FALSE, ocr |-> Raises]

\* the most pages a document of the model has
MaxPages == 3

\* the sequences of at most n elements of S, none empty
RECURSIVE SeqsUpTo(_, _)
SeqsUpTo(S, n) ==
  IF n = 0 THEN { }
  ELSE LET shorter == SeqsUpTo(S, n - 1)
       IN  { << x >> : x \in S } \cup shorter
             \cup { Append(q, x) : q \in shorter, x \in S }

\* pdf_bytes: the empty buffer, a buffer fitz.open rejects, or a PDF
Documents ==
  { [kind |-> "empty", pages |-> << >>], [kind |-> "corrupt", pages |-> << >>] }
    \cup { [kind |-> "pdf", pages |-> ps] : ps \in SeqsUpTo(PageKinds, MaxPages) }

\* how the OCR libraries behave in one call of extract_text_with_ocr: they
\* work, their import raises ImportError, or something else raises outside
\* the page loop
OcrEnvs == { "ok", "no_libs", "error" }

\* --------------------------------------------- gemini_api.py: JSON text
\*
\* The texts of the LLM side (replies, JSON documents) are sequences of
\* characters too, except that a run of letters, digits, blanks and plain
\* punctuation inside a JSON string, or one of the words true, false and
\* null, may stand as one element (a word such as "noticeType").  A word
\* holds no quote, backslash, bracket, brace or line break, does not begin
\* or end with white space, and is never put right after a backslash.

QUOTE == "\""
BSLASH == "\\"
BACKTICK == "BACKTICK"
\* the control characters \b and \f
CH_BS == "U+0008"
CH_FF == "U+000C"

\* the white space of JSON
JsonWhite == { SP, TAB, NL, CR }
\* the control characters of the alphabet: a JSON string holds none unescaped
ControlChars == { TAB, NL, CR, CH_BS, CH_FF }
JsonLiterals == { "true", "false", "null" }

\* A JSON value: t is "obj", "arr", "str", "num" or "lit"; s is the content
\* of a string, or the text of a number or literal; keys[i] and items[i] are
\* the i-th member of an object, items the elements of an array.
JValue(t, s, keys, items) == [t |-> t, s |-> s, keys |-> keys, items |-> items]
JStr(s) == JValue("str", s, << >>, << >>)
JArr(items) == JValue("arr", << >>, << >>, items)
JObj(keys, items) == JValue("obj", << >>, keys, items)

\* the result of parsing from an index: ok, the value and the index after
\* it; or not ok (json.JSONDecodeError)
ParseFail == [ok |-> FALSE, v |-> JStr(<< >>), n |-> 0]
ParseOk(v, n) == [ok |-> TRUE, v |-> v, n |-> n]

\* the index of the first element from i on that is no JSON white space
SkipWs(t, i) == RunEnd(t, JsonWhite, i) + 1

\* the content of a string whose opening quote is before j: up to the
\* closing quote, with the escapes decoded; an unescaped control character,
\* an unknown escape or the end of the text is an error (\u is not modelled)
RECURSIVE ScanString(_, _, _)
ScanString(t, j, acc) ==
  IF j > Len(t) THEN ParseFail
  ELSE IF t[j] = QUOTE THEN ParseOk(JStr(acc), j + 1)
  ELSE IF t[j] \in ControlChars THEN ParseFail
  ELSE IF t[j] = BSLASH
    THEN IF j + 1 > Len(t) THEN ParseFail
         ELSE LET e == t[j + 1]
              IN  IF e \in { QUOTE, BSLASH, "/" }
                    THEN ScanString(t, j + 2, Append(acc, e))
                  ELSE IF e = "n" THEN ScanString(t, j + 2, Append(acc, NL))
                  ELSE IF e = "t" THEN ScanString(t, j + 2, Append(acc, TAB))
                  ELSE IF e = "r" THEN ScanString(t, j + 2, Append(acc, CR))
                  ELSE IF e = "b" THEN ScanString(t, j + 2, Append(acc, CH_BS))
                  ELSE IF e = "f" THEN ScanString(t, j + 2, Append(acc, CH_FF))
                  ELSE ParseFail
  ELSE ScanString(t, j + 1, Append(acc, t[j]))

\* a number at i: -?(0|[1-9][0-9]*)(\.[0-9]+)?  (no exponent is modelled)
ScanNumber(t, i) ==
  LET d == IF t[i] = "-" THEN i + 1 ELSE i
      intEnd == IF d <= Len(t) /\ t[d] = "0" THEN d
                ELSE RunEnd(t, DigitChars, d)
      fracEnd == IF /\ intEnd + 2 <= Len(t)
                    /\ t[intEnd + 1] = "."
                    /\ t[intEnd + 2] \in DigitChars
                   THEN RunEnd(t, DigitChars, intEnd + 2)
                   ELSE intEnd
  IN  IF intEnd < d THEN ParseFail
      ELSE ParseOk(JValue("num", SubSeq(t, i, fracEnd), << >>, << >>),
                   fracEnd + 1)

RECURSIVE ParseValue(_, _), ParseMembers(_, _, _, _), ParseItems(_, _, _)

\* the value that begins at i (no white space is skipped before it)
ParseValue(t, i) ==
  IF i > Len(t) THEN ParseFail
  ELSE IF t[i] = "{"
    THEN LET j == SkipWs(t, i + 1)
         IN  IF j <= Len(t) /\ t[j] = "}"
               THEN ParseOk(JObj(<< >>, << >>), j + 1)
               ELSE ParseMembers(t, j, << >>, << >>)
  ELSE IF t[i] = "["
    THEN LET j == SkipWs(t, i + 1)
         IN  IF j <= Len(t) /\ t[j] = "]"
               THEN ParseOk(JArr(<< >>), j + 1)
               ELSE ParseItems(t, j, << >>)
  ELSE IF t[i] = QUOTE THEN ScanString(t, i + 1, << >>)
  ELSE IF t[i] \in DigitChars \cup { "-" } THEN ScanNumber(t, i)
  ELSE IF t[i] \in JsonLiterals
    THEN ParseOk(JValue("lit", << t[i] >>, << >>, << >>), i + 1)
  ELSE ParseFail

\* the members of an object from i on, where a key must begin; keys and
\* items are the members read so far
ParseMembers(t, i, keys, items) ==
  IF i > Len(t) \/ t[i] # QUOTE THEN ParseFail
  ELSE LET k == ScanString(t, i + 1, << >>)
       IN  IF ~k.ok THEN ParseFail
           ELSE LET c == SkipWs(t, k.n)
                IN  IF c > Len(t) \/ t[c] # ":" THEN ParseFail
                    ELSE LET v == ParseValue(t, SkipWs(t, c + 1))
                         IN  IF ~v.ok THEN ParseFail
                             ELSE LET e == SkipWs(t, v.n)
                                      ks == Append(keys, k.v.s)
                                      is == Append(items, v.v)
                                  IN  IF e > Len(t) THEN ParseFail
                                      ELSE IF t[e] = "}"
                                        THEN ParseOk(JObj(ks, is), e + 1)
                                      ELSE IF t[e] = ","
                                        THEN ParseMembers(t, SkipWs(t, e + 1),
                                                          ks, is)
                                      ELSE ParseFail

\* the elements of an array from i on, where a value must begin
ParseItems(t, i, items) ==
  LET v == ParseValue(t, i)
  IN  IF ~v.ok THEN ParseFail
      ELSE LET e == SkipWs(t, v.n)
               is == Append(items, v.v)
           IN  IF e > Len(t) THEN ParseFail
               ELSE IF t[e] = "]" THEN ParseOk(JArr(is), e + 1)
               ELSE IF t[e] = "," THEN ParseItems(t, SkipWs(t, e + 1), is)
               ELSE ParseFail

\* json.loads: one value between white space and nothing else
json_loads(t) ==
  LET r == ParseValue(t, SkipWs(t, 1))
  IN  IF r.ok /\ SkipWs(t, r.n) > Len(t) THEN r ELSE ParseFail

\* the escapes json.dumps writes inside a string
EscapePiece(t, i) ==
  IF t[i] = QUOTE THEN << BSLASH, QUOTE >>
  ELSE IF t[i] = BSLASH THEN << BSLASH, BSLASH >>
  ELSE IF t[i] = NL THEN << BSLASH, "n" >>
  ELSE IF t[i] = TAB THEN << BSLASH, "t" >>
  ELSE IF t[i] = CR THEN << BSLASH, "r" >>
  ELSE IF t[i] = CH_BS THEN << BSLASH, "b" >>
  ELSE IF t[i] = CH_FF THEN << BSLASH, "f" >>
  ELSE << t[i] >>

\* a string as json.dumps writes it
DumpString(s) == << QUOTE >> \o SubEach(s, EscapePiece) \o << QUOTE >>

\* the spaces before an item at the given nesting level
DumpsIndent == 2
Indent(level) == Rep(SP, DumpsIndent * level)

\* json.dumps(v, indent=2) at a nesting level: an item per line, ", " never
\* written, ": " between a key and its value, [] and {} when empty
RECURSIVE Dumps(_, _)
Dumps(v, level) ==
  IF v.t = "str" THEN DumpString(v.s)
  ELSE IF v.t \in { "num", "lit" } THEN v.s
  ELSE IF v.t = "arr"
    THEN IF v.items = << >> THEN << "[", "]" >>
         ELSE << "[", NL >>
              \o Join(<< ",", NL >>,
                      [i \in 1..Len(v.items) |->
                         Indent(level + 1) \o Dumps(v.items[i], level + 1)])
              \o << NL >> \o Indent(level) \o << "]" >>
  ELSE IF v.keys = << >> THEN << "{", "}" >>
       ELSE << "{", NL >>
            \o Join(<< ",", NL >>,
                    [i \in 1..Len(v.keys) |->
                       Indent(level + 1) \o DumpString(v.keys[i])
                         \o << ":", SP >> \o Dumps(v.items[i], level + 1)])
            \o << NL >> \o Indent(level) \o << "}" >>

json_dumps(v) == Dumps(v, 0)

\* ----------------------------------- gemini_api.py: clean_api_response

\* str.startswith, str.endswith
StartsWith(t, prefix) ==
  Len(t) >= Len(prefix) /\ SubSeq(t, 1, Len(prefix)) = prefix
EndsWith(t, suffix) ==
  Len(t) >= Len(suffix)
    /\ SubSeq(t, Len(t) - Len(suffix) + 1, Len(t)) = suffix

FENCE == << BACKTICK, BACKTICK, BACKTICK >>
FENCE_JSON == FENCE \o << "j", "s", "o", "n" >>

\* lines 169-174: the three tests for a code fence, one after the other
StripFences(response_text) ==
  LET r1 == IF StartsWith(Strip(response_text), FENCE_JSON)
              THEN SubSeq(Strip(response_text), Len(FENCE_JSON) + 1,
                          Len(Strip(response_text)))
              ELSE response_text
      r2 == IF StartsWith(Strip(r1), FENCE)
              THEN SubSeq(Strip(r1), Len(FENCE) + 1, Len(Strip(r1)))
              ELSE r1
      r3 == IF EndsWith(Strip(r2), FENCE)
              THEN SubSeq(Strip(r2), 1, Len(Strip(r2)) - Len(FENCE))
              ELSE r2
  IN  r3

\* str.split('\n'): a line starts at the start of the text and after each
\* line break, and ends at the end of the text and before each line break
LineStarts(t) == { i \in 1..Len(t) : i = 1 \/ t[i - 1] = NL }
LineEnds(t) == { i \in 1..Len(t) : i = Len(t) \/ t[i + 1] = NL }
InLineWhite == WhiteChars \ { NL }

\* line.strip().startswith('{') for the line that starts at i
LineOpens(t, i) ==
  LET p == RunEnd(t, InLineWhite, i) + 1
  IN  p <= Len(t) /\ t[p] = "{"

\* line.strip().endswith('}') for the line that ends at i
LineCloses(t, i) ==
  LET q == RunStart(t, InLineWhite, i) - 1
  IN  q >= 1 /\ t[q] = "}"

\* lines 169-174 and 194 alone, without the search for the lines of the JSON
clean_api_response_fences_only(response_text) ==
  Strip(StripFences(response_text))

\* lines 176-194 with the search of line 186 from the first line on
clean_api_response_first_close(response_text) ==
  LET t == StripFences(response_text)
      starts == { i \in LineStarts(t) : LineOpens(t, i) }
      ends == { i \in LineEnds(t) : LineCloses(t, i) }
  IN  IF starts = { } \/ ends = { } THEN Strip(t)
      ELSE LET json_start == CHOOSE k \in starts : \A j \in starts : k <= j
               json_end == CHOOSE k \in ends : \A j \in ends : k <= j
           IN  IF json_start > json_end THEN << >>
               ELSE Strip(SubSeq(t, json_start, json_end))

\* lines 176-194: from the first line that begins with '{' to the last line
\* that ends with '}', both after strip(); the text as it is when either is
\* missing; nothing when the first comes after the last
clean_api_response(response_text) ==
  LET t == StripFences(response_text)
      starts == { i \in LineStarts(t) : LineOpens(t, i) }
      ends == { i \in LineEnds(t) : LineCloses(t, i) }
  IN  IF starts = { } \/ ends = { } THEN Strip(t)
      ELSE LET json_start == CHOOSE k \in starts : \A j \in starts : k <= j
               json_end == CHOOSE k \in ends : \A j \in ends : j <= k
           IN  IF json_start > json_end THEN << >>
               ELSE Strip(SubSeq(t, json_start, json_end))

\* -------------------------------- gemini_api.py: fix_common_json_issues

\* lines 199-201: str.replace of a line break, a tab and a carriage return
\* by the two characters of its escape
EscapeBreakPiece(t, i) ==
  IF t[i] = NL THEN << BSLASH, "n" >>
  ELSE IF t[i] = TAB THEN << BSLASH, "t" >>
  ELSE IF t[i] = CR THEN << BSLASH, "r" >>
  ELSE << t[i] >>

\* line 204: re.sub(r'(?<!\\)"(?=[^,}])', '\\"', t): a quote that no
\* backslash precedes and that a character other than , and } follows
EscapeQuotePiece(t, i) ==
  IF /\ t[i] = QUOTE
     /\ (i = 1 \/ t[i - 1] # BSLASH)
     /\ i < Len(t)
     /\ t[i + 1] \notin { ",", "}" }
    THEN << BSLASH, QUOTE >> ELSE << t[i] >>

\* line 207: re.sub(r',(\s*[}\]])', r'\1', t): the comma before a closing
\* bracket goes
TrailingCommaPiece(t, i) ==
  IF t[i] = ","
    THEN LET e == RunEnd(t, WhiteChars, i + 1)
         IN  IF e + 1 <= Len(t) /\ t[e + 1] \in { "}", "]" }
               THEN << >> ELSE << t[i] >>
  ELSE << t[i] >>

\* line 210: re.sub(r'}\s*{', '},{', t)
MissingCommaPiece(t, i) ==
  IF t[i] = "}"
    THEN LET e == RunEnd(t, WhiteChars, i + 1)
         IN  IF e + 1 <= Len(t) /\ t[e + 1] = "{"
               THEN << "}", "," >> ELSE << t[i] >>
  ELSE IF t[i] \in WhiteChars
    THEN LET a == RunStart(t, WhiteChars, i)
             e == RunEnd(t, WhiteChars, i)
         IN  IF a >= 2 /\ t[a - 1] = "}" /\ e + 1 <= Len(t) /\ t[e + 1] = "{"
               THEN << >> ELSE << t[i] >>
  ELSE << t[i] >>

fix_common_json_issues(json_string) ==
  LET j1 == SubEach(json_string, EscapeBreakPiece)
      j2 == SubEach(j1, EscapeQuotePiece)
      j3 == SubEach(j2, TrailingCommaPiece)
      j4 == SubEach(j3, MissingCommaPiece)
  IN  j4

\* ------------------------------ gemini_api.py: validate_analysis_result

\* the names of the fields are words
required_fields ==
  << << "noticeType" >>, << "noticeFor" >>, << "address" >>, << "ssn" >>,
     << "amountDue" >>, << "payBy" >>, << "breakdown" >>,
     << "noticeMeaning" >>, << "whyText" >>, << "fixSteps" >>,
     << "paymentOptions" >>, << "helpInfo" >> >>

nested_objects ==
  << << "fixSteps" >>, << "paymentOptions" >>, << "helpInfo" >> >>

\* `field in data` for a dict
HasKey(data, field) == \E i \in 1..Len(data.keys) : data.keys[i] = field

\* data.get(field) for a dict that has the key: the last member of that name
GetKey(data, field) ==
  data.items[CHOOSE i \in 1..Len(data.keys) :
               /\ data.keys[i] = field
               /\ \A j \in 1..Len(data.keys) : data.keys[j] = field => j <= i]

\* lines 214-245: "true" or "false"; "raise" when the value parsed is such
\* that `field not in data` or data.get raises (a number, a literal, or a
\* string or list that holds every field name), which the function does
\* not catch
validate_analysis_result(json_string) ==
  LET r == json_loads(json_string)
      data == r.v
  IN  IF ~r.ok THEN "false"
      ELSE IF data.t \in { "num", "lit" } THEN "raise"
      ELSE IF data.t = "str"
        THEN IF \A i \in 1..Len(required_fields) :
                  Contains(data.s, required_fields[i])
               THEN "raise" ELSE "false"
      ELSE IF data.t = "arr"
        THEN IF \A i \in 1..Len(required_fields) :
                  \E j \in 1..Len(data.items) :
                    data.items[j] = JStr(required_fields[i])
               THEN "raise" ELSE "false"
      ELSE IF \E i \in 1..Len(required_fields) :
                ~HasKey(data, required_fields[i])
        THEN "false"
      ELSE IF GetKey(data, << "breakdown" >>).t # "arr" THEN "false"
      ELSE IF \E i \in 1..Len(nested_objects) :
                GetKey(data, nested_objects[i]).t # "obj"
        THEN "false"
      ELSE "true"

\* ------------------------------ gemini_api.py: create_fallback_response

LetterChars == UpperChars \cup LowerChars

\* the end of the match of \d+[A-Z]* (with re.IGNORECASE) that begins at i,
\* i - 1 when there is no digit at i
CodeEnd(t, i) ==
  LET d == RunEnd(t, DigitChars, i)
  IN  IF d < i THEN i - 1 ELSE RunEnd(t, LetterChars, d + 1)

\* re.search(prefix + r'\d+[A-Z]*', t, re.IGNORECASE): the leftmost match,
\* as its first and last index, or none
SearchCode(t, prefix) ==
  LET n == Len(prefix)
      at == { i \in 1..(Len(t) - n) :
                /\ Lower(SubSeq(t, i, i + n - 1)) = Lower(prefix)
                /\ t[i + n] \in DigitChars }
  IN  IF at = { } THEN [found |-> FALSE, first |-> 0, last |-> 0]
      ELSE LET i == CHOOSE k \in at : \A j \in at : k <= j
           IN  [found |-> TRUE, first |-> i, last |-> CodeEnd(t, i + n)]

\* re.search(r'\$[\d,]+\.?\d*', t): the leftmost match, or none
SearchAmount(t) ==
  LET at == { i \in 1..(Len(t) - 1) :
                t[i] = "$" /\ t[i + 1] \in DigitChars \cup { "," } }
  IN  IF at = { } THEN [found |-> FALSE, first |-> 0, last |-> 0]
      ELSE LET i == CHOOSE k \in at : \A j \in at : k <= j
               a == RunEnd(t, DigitChars \cup { "," }, i + 1)
               b == IF a + 1 <= Len(t) /\ t[a + 1] = "." THEN a + 1 ELSE a
               c == RunEnd(t, DigitChars, b + 1)
           IN  [found |-> TRUE, first |-> i, last |-> c]

\* lines 250-260: the notice code, upper-cased; a "Letter" code, as it is
\* written, comes before it
notice_type_of(text) ==
  LET cp_match == SearchCode(text, << "C", "P" >>)
      letter_match == SearchCode(text, << "L", "e", "t", "t", "e", "r", SP >>)
  IN  IF letter_match.found
        THEN SubSeq(text, letter_match.first, letter_match.last)
      ELSE IF cp_match.found
        THEN Upper(SubSeq(text, cp_match.first, cp_match.last))
      ELSE << >>

\* lines 262-265 with the pattern r'\$[\d,]+'
amount_due_of_whole_dollars(text) ==
  LET amount_match == SearchAmount(text)
  IN  IF amount_match.found
        THEN SubSeq(text, amount_match.first,
                    RunEnd(text, DigitChars \cup { "," },
                           amount_match.first + 1))
      ELSE << >>

\* lines 262-265
amount_due_of(text) ==
  LET amount_match == SearchAmount(text)
  IN  IF amount_match.found
        THEN SubSeq(text, amount_match.first, amount_match.last)
      ELSE << >>

\* a sentence of the fallback record, as one word
W(sentence) == JStr(<< sentence >>)

\* lines 267-290: the values of the dict, in the order of the source
fallback_values(notice_type, amount_due) ==
  << JStr(notice_type),
     JStr(<< >>),
     JStr(<< >>),
     JStr(<< >>),
     JStr(amount_due),
     JStr(<< >>),
     JArr(<< >>),
     W("This appears to be a tax notice requiring your attention."),
     W("Unable to determine specific reason. Please review the document carefully."),
     JObj(<< << "agree" >>, << "disagree" >> >>,
          << W("Contact the IRS at the number provided to arrange payment."),
             W("Contact the IRS to dispute the notice or request additional information.") >>),
     JObj(<< << "online" >>, << "mail" >>, << "plan" >> >>,
          << W("www.irs.gov/payments"),
             W("Check the notice for mailing instructions"),
             W("www.irs.gov/paymentplan") >>),
     JObj(<< << "contact" >>, << "advocate" >> >>,
          << W("Check the notice for specific contact information"),
             W("Taxpayer Advocate Service: 1-877-777-4778") >>) >>

\* lines 267-290 with 'helpInfo' left out of the dict
fallback_data_without_help(notice_type, amount_due) ==
  JObj(SubSeq(required_fields, 1, Len(required_fields) - 1),
       SubSeq(fallback_values(notice_type, amount_due), 1,
              Len(required_fields) - 1))

\* lines 267-290: the dict, its keys in the order of the source
fallback_data(notice_type, amount_due) ==
  JObj(required_fields, fallback_values(notice_type, amount_due))

\* lines 247-292
create_fallback_response(text) ==
  json_dumps(fallback_data(notice_type_of(text), amount_due_of(text)))

\* ==== state

VARIABLES
  \* extract_text_from_pdf_enhanced
  pdf_bytes,          \* the argument: a document of Documents
  pc,                 \* the statement the call is at
  page_num,           \* the index of the direct loop, from 0
  page_text,          \* the text of the current page
  tried,              \* the strategies run on the current page
  extracted_text,     \* the aggregate of the direct loop, cleaned at line 57
  pages_with_text,
  page_log,           \* what each page has added to extracted_text, in order
  ocr_text,           \* what extract_text_with_ocr has returned
  result,             \* the value returned
  outcome,            \* "running", "returned", or "raised" (an exception escaped)
  source,             \* the return statement taken
  \* extract_text_with_ocr
  ocr_env,            \* how the OCR libraries behave, "not_called" before the call
  ocr_page_num,
  ocr_extracted_text,
  successful_pages,
  ocr_error,          \* an exception has been raised inside the function
  ocr_raised,         \* the function has let an exception escape
  \* is_meaningful_text, called on its own
  cls_pc,             \* "idle", "call" or "done"
  cls_text,           \* the argument
  cls_verdict,        \* the value returned
  \* summarize_notice
  s_pc,               \* the statement the handler is at
  request,            \* the upload: file, filename, file_size, user_id
  db_ok,              \* the history database accepts the insert
  raw_text,           \* what extract_text_from_pdf_enhanced has returned
  response,           \* the status and the body of the answer
  history,            \* the records saved by save_analysis_history
  \* call_gemini_api
  api_key,            \* GEMINI_API_KEY is set
  g_pc,               \* the statement the call is at
  attempt,            \* the index of the retry loop, from 0
  answers,            \* what the service has answered to each request
  waits,              \* the arguments of time.sleep, in order
  summary_json,       \* the value returned
  via,                \* the return statement taken
  \* create_fallback_response, called on its own
  fb_pc,              \* "idle", "call" or "done"
  fb_text,            \* the argument
  fb_out,             \* the value returned
  \* clean_api_response, called on its own
  clean_pc,           \* "idle", "call", "cleaned" or "again"
  clean_in,           \* the argument and how it was put together
  clean_out,          \* the value returned
  clean_again         \* the value returned for clean_out

xvars ==
  << pdf_bytes, pc, page_num, page_text, tried, extracted_text,
     pages_with_text, page_log, ocr_text, result, outcome, source, ocr_env,
     ocr_page_num, ocr_extracted_text, successful_pages, ocr_error,
     ocr_raised >>

cvars == << cls_pc, cls_text, cls_verdict >>

hvars == << s_pc, request, db_ok, raw_text, response, history >>

gvars == << api_key, g_pc, attempt, answers, waits, summary_json, via >>

svars == << hvars, gvars >>

fvars == << fb_pc, fb_text, fb_out >>

kvars == << clean_pc, clean_in, clean_out, clean_again >>

vars == << xvars, cvars, svars, fvars, kvars >>

\* what a call of extract_text_from_pdf_enhanced leaves alone
xRest == << cvars, svars, fvars, kvars >>
\* what a call of is_meaningful_text leaves alone
cRest == << xvars, svars, fvars, kvars >>
\* what a request to /summarize leaves alone
sRest == << xvars, cvars, fvars, kvars >>
\* what a call of create_fallback_response leaves alone
fRest == << xvars, cvars, svars, kvars >>
\* what a call of clean_api_response leaves alone
kRest == << xvars, cvars, svars, fvars >>

\* the answer of /summarize before there is one
NoResponse ==
  [status |-> 0, success |-> FALSE, message |-> "", summary |-> JStr(<< >>)]

\* no request to /summarize is under way
SIdle ==
  /\ s_pc = "idle"
  /\ request = [file |-> FALSE, filename |-> << >>, file_size |-> 0,
                user_id |-> FALSE]
  /\ db_ok = FALSE
  /\ raw_text = NoneStr
  /\ response = NoResponse
  /\ history = << >>
  /\ api_key = FALSE
  /\ g_pc = "idle"
  /\ attempt = 0
  /\ answers = << >>
  /\ waits = << >>
  /\ summary_json = NoneStr
  /\ via = "none"

\* no call of create_fallback_response is under way
FIdle ==
  /\ fb_pc = "idle"
  /\ fb_text = << >>
  /\ fb_out = << >>

\* a text given to clean_api_response as it is
RawInput(t) ==
  [text |-> t, wrapped |-> FALSE, object |-> JStr(<< >>), lead |-> << >>,
   trail |-> << >>]

\* no call of clean_api_response on its own is made
KIdle ==
  /\ clean_pc = "idle"
  /\ clean_in = RawInput(<< >>)
  /\ clean_out = << >>
  /\ clean_again = << >>

\* len(doc)
NumPages == Len(pdf_bytes.pages)
\* what the libraries answer for doc[n], n from 0
PageAt(n) == Page(pdf_bytes.pages[n + 1])

\* ------------------------- pdf_extractor.py: extract_text_from_pdf_enhanced

\* lines 83-85 without the except clause: the exception leaves the call
OuterExcept_missing ==
  [outcome |-> "raised", result |-> NoneStr, source |-> "exception"]

\* lines 83-85: the except clause around the whole body: log, return None
OuterExcept ==
  [outcome |-> "returned", result |-> NoneStr, source |-> "exception"]

\* the call ends with the given assignment to outcome, result and source
Finish(r) ==
  /\ pc' = "done"
  /\ outcome' = r.outcome
  /\ result' = r.result
  /\ source' = r.source

xOcrLocals ==
  << ocr_env, ocr_page_num, ocr_extracted_text, successful_pages, ocr_error,
     ocr_raised >>
xLoopLocals ==
  << page_num, page_text, tried, extracted_text, pages_with_text, page_log >>

\* the locals of a call that has not begun
XLocalsInit ==
  /\ page_num = 0
  /\ page_text = << >>
  /\ tried = { }
  /\ extracted_text = << >>
  /\ pages_with_text = 0
  /\ page_log = << >>
  /\ ocr_text = NoneStr
  /\ result = NoneStr
  /\ outcome = "running"
  /\ source = "none"
  /\ ocr_env = "not_called"
  /\ ocr_page_num = 0
  /\ ocr_extracted_text = << >>
  /\ successful_pages = 0
  /\ ocr_error = FALSE
  /\ ocr_raised = FALSE

\* no call of extract_text_from_pdf_enhanced is made
XIdle ==
  /\ pdf_bytes = [kind |-> "empty", pages |-> << >>]
  /\ pc = "idle"
  /\ XLocalsInit

\* no call of is_meaningful_text on its own is made
CIdle ==
  /\ cls_pc = "idle"
  /\ cls_text = << >>
  /\ cls_verdict = FALSE

XInit ==
  /\ pdf_bytes \in Documents
  /\ pc = "entry"
  /\ XLocalsInit
  /\ CIdle
  /\ SIdle
  /\ FIdle
  /\ KIdle

\* lines 11-13: if not pdf_bytes: return None
CheckBytes ==
  /\ pc = "entry"
  /\ IF pdf_bytes.kind = "empty"
       THEN Finish([outcome |-> "returned", result |-> NoneStr,
                    source |-> "no_bytes"])
       ELSE pc' = "open" /\ UNCHANGED << result, outcome, source >>
  /\ UNCHANGED << pdf_bytes, ocr_text >>
  /\ UNCHANGED xLoopLocals
  /\ UNCHANGED xOcrLocals
  /\ UNCHANGED xRest

\* lines 15-21: fitz.open; it raises on a buffer that is no PDF
OpenDocument ==
  /\ pc = "open"
  /\ IF pdf_bytes.kind = "corrupt"
       THEN Finish(OuterExcept)
       ELSE pc' = "loop" /\ UNCHANGED << result, outcome, source >>
  /\ extracted_text' = << >>
  /\ pages_with_text' = 0
  /\ UNCHANGED << pdf_bytes, ocr_text, page_num, page_text, tried, page_log >>
  /\ UNCHANGED xOcrLocals
  /\ UNCHANGED xRest

\* lines 23-25: the next page is loaded, outside any try of the loop body
LoadPage ==
  /\ pc = "loop"
  /\ page_num < NumPages
  /\ IF PageAt(page_num).load
       THEN /\ pc' = "m1"
            /\ page_text' = << >>
            /\ tried' = { }
            /\ UNCHANGED << result, outcome, source >>
       ELSE /\ Finish(OuterExcept)
            /\ UNCHANGED << page_text, tried >>
  /\ UNCHANGED << pdf_bytes, ocr_text, page_num, extracted_text,
                  pages_with_text, page_log >>
  /\ UNCHANGED xOcrLocals
  /\ UNCHANGED xRest

\* A strategy of the loop body without the tests of lines 36 and 46: it
\* runs whatever the page has given so far
Strategy_always(n, here, next, answer) ==
  /\ pc = here
  /\ pc' = next
  /\ tried' = tried \cup { n }
  /\ IF answer.raises
       THEN UNCHANGED << page_text, pages_with_text >>
       ELSE /\ page_text' = answer.text
            /\ pages_with_text' =
                 IF Strip(answer.text) # << >>
                   THEN pages_with_text + 1 ELSE pages_with_text
  /\ UNCHANGED << pdf_bytes, ocr_text, page_num, extracted_text, page_log,
                  result, outcome, source >>
  /\ UNCHANGED xOcrLocals
  /\ UNCHANGED xRest

\* A strategy of the loop body, lines 28-33, 36-43 and 46-52: it runs when
\* the page has no text yet (the first always runs); a text that is not
\* blank counts the page; an exception leaves page_text as it was.
Strategy(n, here, next, answer) ==
  /\ pc = here
  /\ pc' = next
  /\ IF n = 1 \/ Strip(page_text) = << >>
       THEN /\ tried' = tried \cup { n }
            /\ IF answer.raises
                 THEN UNCHANGED << page_text, pages_with_text >>
                 ELSE /\ page_text' = answer.text
                      /\ pages_with_text' =
                           IF Strip(answer.text) # << >>
                             THEN pages_with_text + 1 ELSE pages_with_text
       ELSE UNCHANGED << tried, page_text, pages_with_text >>
  /\ UNCHANGED << pdf_bytes, ocr_text, page_num, extracted_text, page_log,
                  result, outcome, source >>
  /\ UNCHANGED xOcrLocals
  /\ UNCHANGED xRest

\* lines 27-33: page.get_text()
Method1 == Strategy(1, "m1", "m2", PageAt(page_num).m1)

\* lines 35-43: extract_text_from_dict(page.get_text("dict"))
Method2 ==
  LET answer == PageAt(page_num).m2
  IN  Strategy(2, "m2", "m3",
               IF answer.raises THEN Raises
               ELSE Returns(extract_text_from_dict(answer.dict)))

\* lines 45-52: page.get_text("text", flags=...)
Method3 == Strategy(3, "m3", "append", PageAt(page_num).m3)

\* line 54: extracted_text += page_text + "\n\n"
AppendPage ==
  /\ pc = "append"
  /\ pc' = "loop"
  /\ extracted_text' = extracted_text \o page_text \o << NL, NL >>
  /\ page_log' = Append(page_log, page_text)
  /\ page_num' = page_num + 1
  /\ UNCHANGED << pdf_bytes, ocr_text, page_text, tried, pages_with_text,
                  result, outcome, source >>
  /\ UNCHANGED xOcrLocals
  /\ UNCHANGED xRest

\* line 60 with the page count compared with 1 instead of 0
direct_accepted_off_by_one(text, pages) ==
  is_meaningful_text(text) /\ pages > 1

\* line 60: the direct text is accepted
direct_accepted(text, pages) == is_meaningful_text(text) /\ pages > 0

\* lines 56-66: after the loop the aggregate is cleaned and classified; the
\* direct text is returned, or extract_text_with_ocr is called
CleanAndClassify ==
  /\ pc = "loop"
  /\ page_num >= NumPages
  /\ LET cleaned == clean_extracted_text(extracted_text)
     IN  /\ extracted_text' = cleaned
         /\ IF direct_accepted(cleaned, pages_with_text)
              THEN Finish([outcome |-> "returned", result |-> Some(cleaned),
                           source |-> "direct"])
              ELSE pc' = "ocr_import" /\ UNCHANGED << result, outcome, source >>
  /\ UNCHANGED << pdf_bytes, ocr_text, page_num, page_text, tried,
                  pages_with_text, page_log >>
  /\ UNCHANGED xOcrLocals
  /\ UNCHANGED xRest

\* ------------------------------- pdf_extractor.py: extract_text_with_ocr

\* lines 170-172 without the except clause: the exception reaches the caller
OcrOuterExcept_missing == [raised |-> TRUE, value |-> NoneStr]

\* lines 170-172: the except clause around the whole function: log, return
\* None; nothing is raised to the caller
OcrOuterExcept == [raised |-> FALSE, value |-> NoneStr]

\* lines 154-160 without the except clauses of the page loop
OcrPageExcept_missing == "abort"

\* lines 154-160: the except clauses of the page loop: log, continue
OcrPageExcept == "continue"

\* the function returns v, or lets an exception escape
OcrReturn(r) ==
  /\ pc' = "ocr_return"
  /\ ocr_text' = r.value
  /\ ocr_raised' = r.raised

\* lines 119-129: the imports; ImportError returns None at once
OcrImport ==
  /\ pc = "ocr_import"
  /\ \E env \in OcrEnvs :
       /\ ocr_env' = env
       /\ ocr_error' = (env # "ok")
       /\ IF env = "no_libs"
            THEN OcrReturn([raised |-> FALSE, value |-> NoneStr])
            ELSE IF env = "error"
              THEN OcrReturn(OcrOuterExcept)
              ELSE pc' = "ocr_loop" /\ UNCHANGED << ocr_text, ocr_raised >>
  /\ ocr_extracted_text' = << >>
  /\ successful_pages' = 0
  /\ ocr_page_num' = 0
  /\ UNCHANGED << pdf_bytes, result, outcome, source >>
  /\ UNCHANGED xLoopLocals
  /\ UNCHANGED xRest

\* an exception in the body of the page loop
OcrPageFails ==
  /\ ocr_error' = TRUE
  /\ IF OcrPageExcept = "continue"
       THEN /\ pc' = "ocr_loop"
            /\ ocr_page_num' = ocr_page_num + 1
            /\ UNCHANGED << ocr_text, ocr_raised >>
       ELSE /\ OcrReturn(OcrOuterExcept)
            /\ UNCHANGED ocr_page_num

\* lines 131-147: the page is loaded, rendered at twice its size and enhanced
OcrRasterize ==
  /\ pc = "ocr_loop"
  /\ ocr_page_num < NumPages
  /\ IF PageAt(ocr_page_num).load /\ PageAt(ocr_page_num).pix
       THEN /\ pc' = "ocr_recognize"
            /\ UNCHANGED << ocr_page_num, ocr_text, ocr_raised, ocr_error >>
       ELSE OcrPageFails
  /\ UNCHANGED << pdf_bytes, result, outcome, source, ocr_env,
                  ocr_extracted_text, successful_pages >>
  /\ UNCHANGED xLoopLocals
  /\ UNCHANGED xRest

\* lines 149-156: pytesseract.image_to_string; a text that is not blank is
\* appended with "\n\n" and counts the page
OcrRecognize ==
  /\ pc = "ocr_recognize"
  /\ LET answer == PageAt(ocr_page_num).ocr
     IN  IF answer.raises
           THEN /\ OcrPageFails
                /\ UNCHANGED << ocr_extracted_text, successful_pages >>
           ELSE /\ pc' = "ocr_loop"
                /\ ocr_page_num' = ocr_page_num + 1
                /\ IF Strip(answer.text) # << >>
                     THEN /\ ocr_extracted_text' =
                               ocr_extracted_text \o answer.text \o << NL, NL >>
                          /\ successful_pages' = successful_pages + 1
                     ELSE UNCHANGED << ocr_extracted_text, successful_pages >>
                /\ UNCHANGED << ocr_text, ocr_raised, ocr_error >>
  /\ UNCHANGED << pdf_bytes, result, outcome, source, ocr_env >>
  /\ UNCHANGED xLoopLocals
  /\ UNCHANGED xRest

\* lines 162-168 with successful_pages compared with 1 instead of 0
ocr_result_off_by_one(text, pages) ==
  IF pages > 1 THEN Some(clean_extracted_text(text)) ELSE NoneStr

\* lines 162-168: the cleaned text if a page has succeeded, None otherwise
ocr_result(text, pages) ==
  IF pages > 0 THEN Some(clean_extracted_text(text)) ELSE NoneStr

OcrFinish ==
  /\ pc = "ocr_loop"
  /\ ocr_page_num >= NumPages
  /\ OcrReturn([raised |-> FALSE,
                value |-> ocr_result(ocr_extracted_text, successful_pages)])
  /\ UNCHANGED << pdf_bytes, result, outcome, source, ocr_env, ocr_page_num,
                  ocr_extracted_text, successful_pages, ocr_error >>
  /\ UNCHANGED xLoopLocals
  /\ UNCHANGED xRest

\* lines 68-81 with the two best-effort returns in the other order
best_available_ocr_first(direct, ocr) ==
  IF Truthy(ocr) /\ is_meaningful_text(ocr.text)
    THEN [outcome |-> "returned", result |-> Some(ocr.text), source |-> "ocr"]
  ELSE IF Truthy(ocr) /\ Strip(ocr.text) # << >>
    THEN [outcome |-> "returned", result |-> Some(ocr.text),
          source |-> "best_ocr"]
  ELSE IF Strip(direct) # << >>
    THEN [outcome |-> "returned", result |-> Some(direct),
          source |-> "best_direct"]
  ELSE [outcome |-> "returned", result |-> NoneStr, source |-> "exhausted"]

\* lines 68-81: the OCR text if it is meaningful; otherwise the best
\* available: the direct text, then the OCR text, if not blank; else None
best_available(direct, ocr) ==
  IF Truthy(ocr) /\ is_meaningful_text(ocr.text)
    THEN [outcome |-> "returned", result |-> Some(ocr.text), source |-> "ocr"]
  ELSE IF Strip(direct) # << >>
    THEN [outcome |-> "returned", result |-> Some(direct),
          source |-> "best_direct"]
  ELSE IF Truthy(ocr) /\ Strip(ocr.text) # << >>
    THEN [outcome |-> "returned", result |-> Some(ocr.text),
          source |-> "best_ocr"]
  ELSE [outcome |-> "returned", result |-> NoneStr, source |-> "exhausted"]

\* lines 66-81: back from extract_text_with_ocr
AfterOcr ==
  /\ pc = "ocr_return"
  /\ Finish(IF ocr_raised THEN OuterExcept
            ELSE best_available(extracted_text, ocr_text))
  /\ UNCHANGED << pdf_bytes, ocr_text >>
  /\ UNCHANGED xLoopLocals
  /\ UNCHANGED xOcrLocals
  /\ UNCHANGED xRest

XNext ==
  \/ CheckBytes
  \/ OpenDocument
  \/ LoadPage
  \/ Method1
  \/ Method2
  \/ Method3
  \/ AppendPage
  \/ CleanAndClassify
  \/ OcrImport
  \/ OcrRasterize
  \/ OcrRecognize
  \/ OcrFinish
  \/ AfterOcr

\* one call of extract_text_from_pdf_enhanced on a document of Documents
SpecExtract == XInit /\ [][XNext]_vars

\* ------------------------------------------------ the extraction claims

\* the call has ended after the direct loop ran over every page, so that
\* line 57 has cleaned the aggregate and line 60 has classified it
DoneClassified ==
  /\ pc = "done"
  /\ pdf_bytes.kind = "pdf"
  /\ Len(page_log) = NumPages

OcrCalled == ocr_env # "not_called"

\* C4, as it was claimed: whenever a page has yielded native text that is
\* not blank, the call returns the direct text (never the OCR text, never
\* None), however short or noisy it is and whatever the OCR would read.
\* The documents with a page that fails to load are left out.
C4_DirectWheneverNativeText ==
  (DoneClassified /\ pages_with_text > 0) =>
    /\ result = Some(extracted_text)
    /\ Strip(extracted_text) # << >>
    /\ source \in { "direct", "best_direct" }

\* C4, amended: when a page has yielded native text and the cleaned
\* aggregate of the direct loop passes is_meaningful_text, the call returns
\* that aggregate, which is not empty, by the direct return of line 62 and
\* without calling the OCR.
C4_DirectWhenMeaningful ==
  (DoneClassified /\ pages_with_text > 0
     /\ is_meaningful_text(extracted_text)) =>
    /\ result = Some(extracted_text)
    /\ Strip(extracted_text) # << >>
    /\ source = "direct"
    /\ ~OcrCalled

\* a 3-page PDF whose pages 1 and 3 have native text and whose page 2 is a
\* blank scan has been returned by the direct return
C4_Witness ==
  /\ pc = "done"
  /\ pdf_bytes.pages = << "native", "scan", "native" >>
  /\ page_log[2] = T_BLANK
  /\ source = "direct"
  /\ result = Some(extracted_text)

\* C5, as it was claimed: when no page has yielded direct text the OCR is
\* called, and if it has read text that is not blank on some page the call
\* returns the OCR text, meaningful or not.
C5_OcrTextWheneverRecognized ==
  (DoneClassified /\ pages_with_text = 0) =>
    /\ OcrCalled
    /\ (successful_pages > 0 =>
          /\ result.some
          /\ result = Some(clean_extracted_text(ocr_extracted_text))
          /\ source \in { "ocr", "best_ocr" })

\* C5, amended: when no page has yielded direct text the OCR is called, and
\* if it has read text that is not blank on some page the call returns the
\* cleaned OCR text, meaningful or not, provided cleaning leaves something
\* of it; when cleaning leaves nothing the call returns None.
C5_OcrTextWhenCleanedNotEmpty ==
  (DoneClassified /\ pages_with_text = 0) =>
    /\ OcrCalled
    /\ (successful_pages > 0 =>
          LET cleaned == clean_extracted_text(ocr_extracted_text)
          IN  IF cleaned # << >>
                THEN /\ result = Some(cleaned)
                     /\ source \in { "ocr", "best_ocr" }
                ELSE result = NoneStr /\ source = "exhausted")

\* a scan whose OCR text is not meaningful has been returned all the same
C5_Witness ==
  /\ DoneClassified
  /\ pages_with_text = 0
  /\ successful_pages > 0
  /\ ~is_meaningful_text(result.text)
  /\ result = Some(clean_extracted_text(ocr_extracted_text))
  /\ source = "best_ocr"

\* C6: no exception escapes the call, and the call on the empty buffer or
\* on a buffer that cannot be opened as a PDF returns None.
C6_FailureNeverRaises ==
  /\ outcome # "raised"
  /\ (pc = "done" /\ pdf_bytes.kind \in { "empty", "corrupt" }) =>
       (outcome = "returned" /\ result = NoneStr)

\* fitz.open has raised on a corrupt buffer and the call has returned
C6_Witness ==
  /\ pc = "done"
  /\ pdf_bytes.kind = "corrupt"
  /\ source = "exception"
  /\ outcome = "returned"

\* C7: when neither the direct text nor the OCR text is accepted as
\* meaningful, the call returns the direct text if it is not blank, else
\* the OCR text if it is not blank, else None; and a text the call returns
\* is never blank, and is meaningful or comes from the best-effort returns.
C7_BestEffortPolicy ==
  DoneClassified =>
    /\ (/\ ~is_meaningful_text(extracted_text)
        /\ ~(ocr_text.some /\ is_meaningful_text(ocr_text.text)))
         => result = IF Strip(extracted_text) # << >>
                       THEN Some(extracted_text)
                     ELSE IF ocr_text.some /\ Strip(ocr_text.text) # << >>
                       THEN ocr_text
                     ELSE NoneStr
    /\ result.some =>
         /\ Strip(result.text) # << >>
         /\ \/ is_meaningful_text(result.text)
            \/ source \in { "best_direct", "best_ocr" }

\* a direct text that is not meaningful has been returned although the OCR
\* had a text, not meaningful either
C7_Witness ==
  /\ DoneClassified
  /\ source = "best_direct"
  /\ Truthy(ocr_text)
  /\ ~is_meaningful_text(ocr_text.text)
  /\ result = Some(extracted_text)

\* C8: an exception inside extract_text_with_ocr never leaves it and never
\* makes the call fail by itself: when the OCR has ended with no text
\* after an error, the call returns the direct text if that is not blank.
C8_OcrErrorDegrades ==
  /\ ~ocr_raised
  /\ (pc = "done" /\ ocr_error) =>
       /\ outcome = "returned"
       /\ source # "exception"
       /\ ocr_text = NoneStr =>
            result = IF Strip(extracted_text) # << >>
                       THEN Some(extracted_text) ELSE NoneStr

\* an exception outside the page loop of the OCR, and the direct text is
\* returned
C8_Witness ==
  /\ pc = "done"
  /\ ocr_env = "error"
  /\ ocr_error
  /\ source = "best_direct"
  /\ result = Some(extracted_text)

\* C9, as it is claimed: an error on a page, loading it included, makes only
\* that page add an empty string; every page is added to the aggregate, the
\* loop never raises and the call goes on to classify the aggregate.
C9_PagesIndependent ==
  (pc = "done" /\ pdf_bytes.kind = "pdf") =>
    /\ Len(page_log) = NumPages
    /\ source # "exception"
    /\ \A k \in 1..NumPages :
         ~Page(pdf_bytes.pages[k]).load => page_log[k] = << >>

\* ------------------------------------- is_meaningful_text, on its own

\* the texts of the classifier runs have at most MaxAlnum letters or
\* digits and at most MaxSymbols other characters after their first word
MaxAlnum == 16
MaxSymbols == 30

\* 'CP' and 'tax' are keywords; no keyword has a 'z'
ClassifierWords ==
  { << >>, << "t", "a", "x" >>, << "C", "P" >>, << "z", "z", "z" >> }

\* a first word, then letters or digits, then symbols, between blanks
ClassifierTexts ==
  { w \o Rep(c, a) \o Rep("#", n) \o b :
      w \in ClassifierWords, c \in { "z", "7" }, a \in 0..MaxAlnum,
      n \in 0..MaxSymbols, b \in { << >>, << SP, NL >> } }

CInit ==
  /\ cls_pc = "call"
  /\ cls_text \in ClassifierTexts
  /\ cls_verdict = FALSE
  /\ XIdle
  /\ SIdle
  /\ FIdle
  /\ KIdle

\* lines 224-256: is_meaningful_text(cls_text)
Classify ==
  /\ cls_pc = "call"
  /\ cls_pc' = "done"
  /\ cls_verdict' = is_meaningful_text(cls_text)
  /\ UNCHANGED cls_text
  /\ UNCHANGED cRest

CNext == Classify

\* one call of is_meaningful_text on a text of ClassifierTexts
SpecClassifier == CInit /\ [][CNext]_vars

\* C10, as it is claimed: for a text of trimmed length at least 30 with
\* characters other than blanks, a keyword together with a ratio above 0.25
\* gives true, also below 0.4; without a keyword the result is true only
\* from 0.4 on, and false below 0.4.
C10_TwoThresholds ==
  (/\ cls_pc = "done"
   /\ Len(Strip(cls_text)) >= MinMeaningfulLen
   /\ total_chars(cls_text) > 0) =>
    /\ (keyword_found(cls_text) /\ RatioAbove(cls_text, KeywordRatioNum))
         => cls_verdict
    /\ ~keyword_found(cls_text) =>
         /\ cls_verdict => ~RatioBelow(cls_text, RatioNum)
         /\ RatioBelow(cls_text, RatioNum) => ~cls_verdict

\* ------------------------------------------ the answers of the service

\* a text written out letter by letter
CP503C == << "C", "P", "5", "0", "3", "C" >>
AMOUNT == << "$", "1", ",", "2", "3", "4", ".", "5", "6" >>

\* a record as the prompt of lines 118-164 asks for it
llm_record ==
  JObj(required_fields,
       << JStr(CP503C),
          W("JANE DOE"),
          W("1 MAIN ST, SPRINGFIELD"),
          W("1234"),
          JStr(AMOUNT),
          W("May 1, 2024"),
          JArr(<< JObj(<< << "item" >>, << "amount" >> >>,
                       << W("Tax owed"), JStr(AMOUNT) >>) >>),
          W("You have a balance due."),
          W("Our records show an unpaid balance."),
          JObj(<< << "agree" >>, << "disagree" >> >>,
               << W("Pay the amount due."), W("Call us.") >>),
          JObj(<< << "online" >>, << "mail" >>, << "plan" >> >>,
               << W("www.irs.gov/payments"), W("Use the envelope."),
                  W("www.irs.gov/paymentplan") >>),
          JObj(<< << "contact" >>, << "advocate" >> >>,
               << W("1-800-829-1040"), W("1-877-777-4778") >>) >>)

\* the texts the service sends as candidates[0].content.parts[0].text
R_RECORD == json_dumps(llm_record)
R_FENCED == FENCE_JSON \o << NL >> \o R_RECORD \o << NL >> \o FENCE
\* valid JSON that is no complete record
R_PARTIAL ==
  << "{", QUOTE, "noticeType", QUOTE, ":", SP, QUOTE >> \o CP503C
    \o << QUOTE, "}" >>
R_LIST == << "[", "]" >>
\* invalid JSON that the repairs make valid
R_TRAILING == << "{", SP, ",", "}" >>
\* invalid JSON that the repairs leave invalid
R_TRAILING_RECORD ==
  << "{", QUOTE, "noticeType", QUOTE, ":", SP, QUOTE >> \o CP503C
    \o << QUOTE, ",", "}" >>
\* no JSON at all; the notice code in it is not the one of the documents
R_PROSE ==
  << "I am unable to read notice " >>
    \o << "C", "P", "2", "0", "0", "0" >> \o << "." >>

Replies ==
  { R_RECORD, R_FENCED, R_PARTIAL, R_LIST, R_TRAILING, R_TRAILING_RECORD,
    R_PROSE }

\* what one requests.post and the reading of its result can end in:
\* requests.exceptions.Timeout, another RequestException (raise_for_status
\* included), any other exception (response.json(), a part without 'text'),
\* a result without candidates or parts, or a generated text
Answer(kind, text) == [kind |-> kind, text |-> text]
Answers ==
  { Answer(k, << >>) : k \in { "timeout", "request_error", "error", "shape" } }
    \cup { Answer("reply", r) : r \in Replies }

\* ------------------------------------------ gemini_api.py: call_gemini_api

\* line 16: the default of max_retries
max_retries == 3
\* line 22 of gemini_api.py and line 242 of app.py
MinAnalysisLen == 50

\* 2 ** n
RECURSIVE Pow2(_)
Pow2(n) == IF n = 0 THEN 1 ELSE 2 * Pow2(n - 1)

\* the text call_gemini_api has been given
GeminiText == raw_text.text

\* a return statement of call_gemini_api
GeminiReturn(value, statement) ==
  /\ g_pc' = "returned"
  /\ summary_json' = value
  /\ via' = statement

\* lines 18-24: the two early returns; then the loop begins
GeminiEnter ==
  /\ s_pc = "gemini"
  /\ g_pc = "enter"
  /\ IF ~api_key
       THEN GeminiReturn(NoneStr, "no_key") /\ UNCHANGED attempt
     ELSE IF GeminiText = << >> \/ Len(Strip(GeminiText)) < MinAnalysisLen
       THEN GeminiReturn(NoneStr, "short") /\ UNCHANGED attempt
     ELSE /\ g_pc' = "attempt"
          /\ attempt' = 0
          /\ UNCHANGED << summary_json, via >>
  /\ UNCHANGED << hvars, api_key, answers, waits >>
  /\ UNCHANGED sRest

\* lines 115-116 with None returned in place of the fallback record
exhausted_return_none(text) == NoneStr

\* lines 115-116: return create_fallback_response(text)
exhausted_return(text) == Some(create_fallback_response(text))


\* lines 97-98: return create_fallback_response(text)
malformed_return(text) == Some(create_fallback_response(text))

\* line 90 with the repair never tried
repair_never(n) == FALSE

\* line 90: the repair is tried on the reply of the last attempt only
repair_attempted(n) == n = max_retries - 1

\* lines 109-113: the end of the body of the loop
EndOfAttempt ==
  /\ g_pc' = IF attempt < max_retries - 1 THEN "backoff" ELSE "exhausted"
  /\ UNCHANGED << summary_json, via >>

\* lines 60-107: one attempt, the service answering a
GeminiAttempt(a) ==
  /\ s_pc = "gemini"
  /\ g_pc = "attempt"
  /\ answers' = Append(answers, a)
  /\ IF a.kind = "reply"
       THEN LET cleaned_response == clean_api_response(a.text)
                fixed_json == fix_common_json_issues(cleaned_response)
            IN  IF json_loads(cleaned_response).ok
                  THEN GeminiReturn(Some(cleaned_response), "direct")
                ELSE IF repair_attempted(attempt)
                  THEN IF json_loads(fixed_json).ok
                         THEN GeminiReturn(Some(fixed_json), "fixed")
                         ELSE GeminiReturn(malformed_return(GeminiText),
                                           "fallback_malformed")
                ELSE EndOfAttempt
       ELSE EndOfAttempt
  /\ UNCHANGED << hvars, api_key, attempt, waits >>
  /\ UNCHANGED sRest

\* line 111 with the attempts counted from 1
wait_time_from_one(n) == Pow2(n + 1)

\* line 111: wait_time = 2 ** attempt
wait_time(n) == Pow2(n)

\* lines 110-113: time.sleep(wait_time), then the next attempt
GeminiBackoff ==
  /\ s_pc = "gemini"
  /\ g_pc = "backoff"
  /\ waits' = Append(waits, wait_time(attempt))
  /\ attempt' = attempt + 1
  /\ g_pc' = "attempt"
  /\ UNCHANGED << hvars, api_key, answers, summary_json, via >>
  /\ UNCHANGED sRest

\* lines 115-116: the loop is over
GeminiExhausted ==
  /\ s_pc = "gemini"
  /\ g_pc = "exhausted"
  /\ GeminiReturn(exhausted_return(GeminiText), "fallback_exhausted")
  /\ UNCHANGED << hvars, api_key, attempt, answers, waits >>
  /\ UNCHANGED sRest

\* ---------------------------------------------- app.py: summarize_notice

\* line 233
MaxFileSize == 10 * 1024 * 1024

PDF_SUFFIX == << ".", "p", "d", "f" >>
NOTICE_PDF == << "n", "o", "t", "i", "c", "e", ".", "P", "D", "F" >>
NOTICE_TXT == << "n", "o", "t", "i", "c", "e", ".", "t", "x", "t" >>

\* the uploads: without the file field, or with a file of some name and size
Requests ==
  { [file |-> FALSE, filename |-> << >>, file_size |-> 0, user_id |-> u] :
      u \in BOOLEAN }
    \cup { [file |-> TRUE, filename |-> n, file_size |-> z, user_id |-> u] :
             n \in { << >>, NOTICE_PDF, NOTICE_TXT },
             z \in { 2048, MaxFileSize, MaxFileSize + 1 }, u \in BOOLEAN }

\* the page of an older notice: another code and another amount
T_OLDER ==
  << "C", "P", "2", "0", "0", "0", " ", "o", "f", " ", "$", "5", "0", ".",
     "0", "0" >>

\* what extract_text_from_pdf_enhanced returns for the one-page documents
\* "native", "scan", "short" and "layout", for the two-page documents made
\* of the line 'Letter 525' or of the older notice and of the notice, and
\* None
ExtractedTexts ==
  { NoneStr,
    Some(clean_extracted_text(T_SPAN_A \o T_SPAN_B \o << NL, NL >>
                                \o T_NOTICE \o << NL, NL >>)),
    Some(clean_extracted_text(T_OLDER \o << NL, NL >> \o T_NOTICE
                                \o << NL, NL >>)),
    Some(clean_extracted_text(T_NOTICE \o << NL, NL >>)),
    Some(clean_extracted_text(O_NOTICE \o << NL, NL >>)),
    Some(clean_extracted_text(T_SPAN_A \o T_SPAN_B \o << NL, NL, NL >>)),
    Some(clean_extracted_text(T_NOISY \o << NL, NL >>)) }

\* return jsonify({"success": False, "message": m}), code
Refuse(code, m) ==
  /\ s_pc' = "responded"
  /\ response' = [status |-> code, success |-> FALSE, message |-> m,
                  summary |-> JStr(<< >>)]

SInit ==
  /\ s_pc = "received"
  /\ request \in Requests
  /\ db_ok \in BOOLEAN
  /\ raw_text = NoneStr
  /\ response = NoResponse
  /\ history = << >>
  /\ api_key \in BOOLEAN
  /\ g_pc = "idle"
  /\ attempt = 0
  /\ answers = << >>
  /\ waits = << >>
  /\ summary_json = NoneStr
  /\ via = "none"
  /\ XIdle
  /\ CIdle
  /\ FIdle
  /\ KIdle

\* lines 218-236: the checks of the upload
ValidateRequest ==
  /\ s_pc = "received"
  /\ IF ~request.file THEN Refuse(400, "No PDF file provided.")
     ELSE IF request.filename = << >> THEN Refuse(400, "No file selected.")
     ELSE IF ~EndsWith(Lower(request.filename), PDF_SUFFIX)
       THEN Refuse(400, "Only PDF files allowed.")
     ELSE IF request.file_size > MaxFileSize
       THEN Refuse(400, "File too large. Max 10MB.")
     ELSE s_pc' = "extract" /\ UNCHANGED response
  /\ UNCHANGED << request, db_ok, raw_text, history, gvars >>
  /\ UNCHANGED sRest

\* lines 239-251: the extraction returning t, the length check, and the
\* call of call_gemini_api
ExtractText(t) ==
  /\ s_pc = "extract"
  /\ raw_text' = t
  /\ IF ~Truthy(t) \/ Len(Strip(t.text)) < MinAnalysisLen
       THEN /\ Refuse(500, "Could not extract meaningful text from PDF.")
            /\ UNCHANGED g_pc
       ELSE /\ s_pc' = "gemini"
            /\ g_pc' = "enter"
            /\ UNCHANGED response
  /\ UNCHANGED << request, db_ok, history, api_key, attempt, answers, waits,
                  summary_json, via >>
  /\ UNCHANGED sRest

\* app.py lines 277-296, save_analysis_history: the insert, when there is a
\* connection; summary_data.get raises for a value that is no dict, and
\* every exception is caught and logged
save_analysis_history(summary_data) ==
  IF db_ok /\ summary_data.t = "obj"
    THEN Append(history, summary_data) ELSE history

\* lines 252-271: the answer
Respond ==
  /\ s_pc = "gemini"
  /\ g_pc = "returned"
  /\ IF ~Truthy(summary_json)
       THEN Refuse(500, "Failed to analyze document.") /\ UNCHANGED history
     ELSE LET summary_data == json_loads(summary_json.text)
          IN  IF summary_data.ok
                THEN /\ history' = IF request.user_id
                                     THEN save_analysis_history(summary_data.v)
                                     ELSE history
                     /\ s_pc' = "responded"
                     /\ response' = [status |-> 200, success |-> TRUE,
                                     message |-> "",
                                     summary |-> summary_data.v]
                ELSE /\ Refuse(500, "Invalid AI response.")
                     /\ UNCHANGED history
  /\ UNCHANGED << request, db_ok, raw_text, gvars >>
  /\ UNCHANGED sRest

SNext ==
  \/ ValidateRequest
  \/ \E t \in ExtractedTexts : ExtractText(t)
  \/ GeminiEnter
  \/ \E a \in Answers : GeminiAttempt(a)
  \/ GeminiBackoff
  \/ GeminiExhausted
  \/ Respond

\* one request to /summarize
SpecSummarize == SInit /\ [][SNext]_vars

\* ------------------------------------------- the claims on /summarize

\* call_gemini_api has returned a string
GeminiReturnedText == g_pc = "returned" /\ summary_json.some

\* every answer of the service was a failure, or a reply that neither
\* parses nor is repaired into something that parses
AnswerFailed(a) ==
  \/ a.kind # "reply"
  \/ /\ ~json_loads(clean_api_response(a.text)).ok
     /\ ~json_loads(fix_common_json_issues(clean_api_response(a.text))).ok

\* the request has come to the call of call_gemini_api: the extracted text
\* has passed the length check of line 242
PassedBoundary ==
  /\ s_pc \in { "gemini", "responded" }
  /\ Truthy(raw_text)
  /\ Len(Strip(raw_text.text)) >= MinAnalysisLen

\* C1, as it is claimed: every string call_gemini_api returns, and every
\* summary /summarize sends with status 200, is a complete record: an
\* object with the twelve keys, breakdown a list and fixSteps,
\* paymentOptions and helpInfo objects.
C1_ReturnedRecordComplete ==
  /\ GeminiReturnedText =>
       validate_analysis_result(summary_json.text) = "true"
  /\ (s_pc = "responded" /\ response.status = 200) =>
       validate_analysis_result(json_dumps(response.summary)) = "true"

\* C2, as it is claimed: once the extracted text has passed the length
\* check, call_gemini_api never returns None and /summarize never answers
\* with an error.
C2_NoErrorAfterBoundary ==
  /\ (PassedBoundary /\ g_pc = "returned") => summary_json.some
  /\ (PassedBoundary /\ s_pc = "responded") => response.status = 200

\* C2, amended: once the extracted text has passed the length check and
\* GEMINI_API_KEY is set, call_gemini_api returns a string and /summarize
\* answers 200, and when every attempt has failed that string is the
\* fallback record of the extracted text; when the key is not set
\* call_gemini_api returns None and /summarize answers 500.
C2_NoErrorAfterBoundaryWithKey ==
  /\ (PassedBoundary /\ g_pc = "returned" /\ api_key) =>
       /\ summary_json.some
       /\ (\A i \in 1..Len(answers) : AnswerFailed(answers[i])) =>
            summary_json = Some(create_fallback_response(raw_text.text))
  /\ (PassedBoundary /\ s_pc = "responded" /\ api_key) =>
       /\ response.status = 200
       /\ response.success
  /\ (PassedBoundary /\ g_pc = "returned" /\ ~api_key) =>
       summary_json = NoneStr
  /\ (PassedBoundary /\ s_pc = "responded" /\ ~api_key) =>
       /\ response.status = 500
       /\ response.message = "Failed to analyze document."

\* C2: three attempts have failed, one of them with a timeout and one with
\* a reply that cannot be repaired, and /summarize has answered 200
C2_Witness ==
  /\ s_pc = "responded"
  /\ PassedBoundary
  /\ api_key
  /\ Len(answers) = max_retries
  /\ \A i \in 1..Len(answers) : AnswerFailed(answers[i])
  /\ \E i \in 1..Len(answers) : answers[i].kind = "timeout"
  /\ \E i \in 1..Len(answers) : answers[i].kind = "reply"
  /\ response.status = 200
  /\ response.summary =
       fallback_data(notice_type_of(raw_text.text),
                     amount_due_of(raw_text.text))

\* ---------------------------------- create_fallback_response, on its own

\* the texts of the fallback runs are made of at most MaxFragments fragments
MaxFragments == 3

FallbackFragments ==
  { << "C", "P" >>, << "c", "p" >>, << "5", "0", "3" >>, << "C" >>,
    << "L", "e", "t", "t", "e", "r", SP >>, << "$" >>,
    << "1", ",", "2", "3", "4", ".", "5", "6" >>, << SP >>,
    << QUOTE, BSLASH, NL >> }

RECURSIVE TextsOf(_)
TextsOf(n) ==
  IF n = 0 THEN { << >> }
  ELSE TextsOf(n - 1)
         \cup { t \o f : t \in TextsOf(n - 1), f \in FallbackFragments }

FallbackTexts == TextsOf(MaxFragments)

FInit ==
  /\ fb_pc = "call"
  /\ fb_text \in FallbackTexts
  /\ fb_out = << >>
  /\ XIdle
  /\ CIdle
  /\ SIdle
  /\ KIdle

\* lines 247-292: create_fallback_response(fb_text)
Fallback ==
  /\ fb_pc = "call"
  /\ fb_pc' = "done"
  /\ fb_out' = create_fallback_response(fb_text)
  /\ UNCHANGED fb_text
  /\ UNCHANGED fRest

FNext == Fallback

\* one call of create_fallback_response on a text of FallbackTexts
SpecFallback == FInit /\ [][FNext]_vars

\* C3: for every text, the empty one included, what
\* create_fallback_response returns parses as a JSON object with the twelve
\* keys, breakdown a list and fixSteps, paymentOptions and helpInfo objects:
\* validate_analysis_result accepts it.
C3_FallbackAlwaysComplete ==
  fb_pc = "done" =>
    LET parsed == json_loads(fb_out)
    IN  /\ parsed.ok
        /\ parsed.v.t = "obj"
        /\ \A i \in 1..Len(required_fields) :
             HasKey(parsed.v, required_fields[i])
        /\ GetKey(parsed.v, << "breakdown" >>).t = "arr"
        /\ \A i \in 1..Len(nested_objects) :
             GetKey(parsed.v, nested_objects[i]).t = "obj"
        /\ validate_analysis_result(fb_out) = "true"

\* C3: the fallback record of the empty text
C3_Witness ==
  /\ fb_pc = "done"
  /\ fb_text = << >>
  /\ json_loads(fb_out).ok
  /\ json_loads(fb_out).v = fallback_data(<< >>, << >>)

\* ------------------------------------------ the claims on the retry loop

\* the moves of the control of call_gemini_api, lines 16-116: from the
\* entry to a return or to the first attempt; from an attempt to a return,
\* to the wait or to the end of the loop; from the wait to the next
\* attempt; from the end of the loop to the return
GeminiControl ==
  /\ s_pc = "gemini"
  /\ \/ g_pc = "enter" /\ g_pc' \in { "attempt", "returned" }
     \/ g_pc = "attempt" /\ g_pc' \in { "backoff", "exhausted", "returned" }
     \/ g_pc = "backoff" /\ g_pc' = "attempt"
     \/ g_pc = "exhausted" /\ g_pc' = "returned"

\* call_gemini_api is sequential code: the statement it is at is executed;
\* requests.post has a timeout of 60 s (line 66) and time.sleep ends, so the
\* control does not stay where it is for ever.
SpecSummarizeLive == SInit /\ [][SNext]_vars /\ WF_g_pc(GeminiControl)

\* the statements call_gemini_api has still to go through, at most
Rank ==
  IF g_pc = "enter" THEN 3 * max_retries + 1
  ELSE IF g_pc = "attempt" THEN 3 * (max_retries - attempt)
  ELSE IF g_pc = "backoff" THEN 3 * (max_retries - attempt) - 1
  ELSE IF g_pc = "exhausted" THEN 1
  ELSE 0

\* a step inside call_gemini_api follows the control of GeminiControl and
\* brings the call nearer to its return
GeminiProgress ==
  (s_pc = "gemini" /\ g_pc # "returned") =>
    /\ GeminiControl
    /\ Rank' < Rank
    /\ Rank' >= 0

\* the cleaned text of a reply parses as JSON
ReplyParses(a) ==
  a.kind = "reply" /\ json_loads(clean_api_response(a.text)).ok

\* the waits of a call on which every attempt fails
BackoffSchedule == << 1, 2 >>

\* what C11 says of a state: at most three requests; a reply that parses is
\* the last one and is returned at once; the waits are 1 s, 2 s, one after
\* each failed attempt but the last
RetryDiscipline ==
  /\ Len(answers) <= 3
  /\ \A i \in 1..Len(answers) :
       ReplyParses(answers[i]) =>
         /\ i = Len(answers)
         /\ g_pc = "returned"
         /\ summary_json = Some(clean_api_response(answers[i].text))
  /\ Len(waits) <= Len(BackoffSchedule)
  /\ waits = SubSeq(BackoffSchedule, 1, Len(waits))
  /\ g_pc = "attempt" => Len(waits) = Len(answers)
  /\ g_pc \in { "backoff", "exhausted" } => Len(waits) = Len(answers) - 1
  /\ (g_pc = "returned" /\ answers # << >>) =>
       Len(waits) = Len(answers) - 1

\* C11: call_gemini_api makes at most 3 requests, returns as soon as a
\* reply parses, waits 2^attempt seconds (1, then 2) after each failed
\* attempt of any kind except the last, and always returns.
C11_BoundedRetries ==
  /\ []RetryDiscipline
  /\ [][GeminiProgress]_vars
  /\ (g_pc = "enter") ~> (g_pc = "returned")

\* C11: a timeout, then a reply that is no JSON, then a third request,
\* with waits of 1 s and 2 s and none after the third
C11_Witness ==
  /\ g_pc = "returned"
  /\ Len(answers) = max_retries
  /\ answers[1].kind = "timeout"
  /\ answers[2] = Answer("reply", R_PROSE)
  /\ answers[3].kind = "shape"
  /\ waits = << 1, 2 >>

\* --------------------------------------- the claims on the repair pipeline

\* the cleaned text of a reply does not parse
ReplyMalformed(a) ==
  a.kind = "reply" /\ ~json_loads(clean_api_response(a.text)).ok

\* fix_common_json_issues applied to the cleaned text of a reply
Repaired(a) == fix_common_json_issues(clean_api_response(a.text))

\* call_gemini_api has returned a fallback record
FallbackReturned ==
  g_pc = "returned" /\ via \in { "fallback_malformed", "fallback_exhausted" }

\* C12, as it is claimed: every reply that does not parse is repaired and
\* parsed again, and returned if it parses then; the fallback record is
\* returned only when no reply received parses after repair, and it is made
\* from the source text.
C12_RepairEveryReply ==
  /\ \A i \in 1..Len(answers) :
       (ReplyMalformed(answers[i]) /\ json_loads(Repaired(answers[i])).ok) =>
         /\ i = Len(answers)
         /\ g_pc = "returned"
         /\ summary_json = Some(Repaired(answers[i]))
  /\ FallbackReturned =>
       /\ summary_json = Some(create_fallback_response(raw_text.text))
       /\ \A i \in 1..Len(answers) :
            ReplyMalformed(answers[i]) =>
              ~json_loads(Repaired(answers[i])).ok

\* C12, amended: the reply of the last attempt that does not parse is
\* repaired and parsed again; it is returned if it parses then, and
\* otherwise the fallback record made from the source text is returned. A
\* reply of an earlier attempt that does not parse is dropped without
\* repair and the call goes on to the next attempt. The fallback record is
\* returned only after the repaired reply of the last attempt has failed to
\* parse or the last attempt has brought no reply.
C12_RepairLastReply ==
  /\ \A i \in 1..Len(answers) :
       ReplyMalformed(answers[i]) =>
         IF i = max_retries
           THEN /\ g_pc = "returned"
                /\ IF json_loads(Repaired(answers[i])).ok
                     THEN summary_json = Some(Repaired(answers[i]))
                     ELSE summary_json =
                            Some(create_fallback_response(raw_text.text))
           ELSE /\ g_pc # "returned" \/ i < Len(answers)
                /\ g_pc \in { "backoff", "attempt" } \/ i < Len(answers)
  /\ FallbackReturned =>
       /\ summary_json = Some(create_fallback_response(raw_text.text))
       /\ Len(answers) = max_retries
       /\ LET last == answers[max_retries]
          IN  \/ last.kind # "reply"
              \/ /\ ReplyMalformed(last)
                 /\ ~json_loads(Repaired(last)).ok

\* C12: a reply that the repairs make valid was dropped on the first
\* attempt and, on the last, repaired and returned
C12_Witness ==
  /\ g_pc = "returned"
  /\ Len(answers) = max_retries
  /\ answers[1] = Answer("reply", R_TRAILING)
  /\ answers[3] = Answer("reply", R_TRAILING)
  /\ ReplyMalformed(answers[3])
  /\ summary_json = Some(Repaired(answers[3]))
  /\ json_loads(summary_json.text).ok

\* ------------------------------------ clean_api_response on its own

\* a small object on one line
OBJ == << "{", QUOTE, "a", QUOTE, ":", SP, "1", "}" >>

\* what the texts given to clean_api_response are put together from
CleanPieces ==
  { FENCE, FENCE_JSON, << NL >>, << SP >>, << "x" >>, << "7" >>, OBJ,
    << "[", NL >>, << NL, "]" >>, << ",", NL >>, << "{" >>, << "}" >> }

MaxCleanPieces == 3

RECURSIVE PiecesOf(_)
PiecesOf(n) ==
  IF n = 0 THEN { << >> }
  ELSE PiecesOf(n - 1)
         \cup { t \o f : t \in PiecesOf(n - 1), f \in CleanPieces }

\* json.dumps of a value without indent, but for the blank after ',' and ':'
OneLine(t) == SelectSeq(t, LAMBDA c : c \notin { NL, SP })

\* the record the prompt asks for, as the service may write it
RecordTexts == { R_RECORD, OneLine(R_RECORD) }

\* the lines the service may write around the record
ProseLines ==
  { << "Here is the analysis you asked for:" >>,
    << "{", "Note: the figures are taken from the notice", "}" >>,
    << "The fields are given between ", "{", " and ", "}" >>,
    << "{", "summary follows" >>,
    << "I have put it in ", BACKTICK, BACKTICK, BACKTICK >> }

MaxProseLines == 1

\* a record in a code fence, with lines before the fence and after it
Wrapped(lead, fence, body, trail) ==
  [text |-> Join(<< NL >>, lead \o << fence, body, FENCE >> \o trail),
   wrapped |-> TRUE, object |-> json_loads(body).v, lead |-> lead,
   trail |-> trail]

WrappedInputs ==
  { Wrapped(lead, fence, body, trail) :
      lead \in SeqsUpTo(ProseLines, MaxProseLines),
      fence \in { FENCE, FENCE_JSON },
      body \in RecordTexts,
      trail \in SeqsUpTo(ProseLines, MaxProseLines) \cup { << >> } }

CleanInputs ==
  { RawInput(t) :
      t \in PiecesOf(MaxCleanPieces) \cup RecordTexts
              \cup { json_dumps(JArr(<< llm_record >>)) } }
    \cup WrappedInputs

KInit ==
  /\ clean_pc = "call"
  /\ clean_in \in CleanInputs
  /\ clean_out = << >>
  /\ clean_again = << >>
  /\ XIdle
  /\ CIdle
  /\ SIdle
  /\ FIdle

\* lines 166-194: clean_api_response(clean_in.text)
CleanCall ==
  /\ clean_pc = "call"
  /\ clean_pc' = "cleaned"
  /\ clean_out' = clean_api_response(clean_in.text)
  /\ UNCHANGED << clean_in, clean_again >>
  /\ UNCHANGED kRest

\* lines 166-194: clean_api_response of what it has returned
CleanAgain ==
  /\ clean_pc = "cleaned"
  /\ clean_pc' = "again"
  /\ clean_again' = clean_api_response(clean_out)
  /\ UNCHANGED << clean_in, clean_out >>
  /\ UNCHANGED kRest

KNext == CleanCall \/ CleanAgain

\* clean_api_response on a text of CleanInputs, and on its result
SpecClean == KInit /\ [][KNext]_vars

\* ---------------------------------- the claims on clean_api_response

\* json.loads accepts the text
ValidJson(t) == json_loads(t).ok

\* json.loads accepts the text and gives an object
JsonObject(t) == ValidJson(t) /\ json_loads(t).v.t = "obj"

\* clean_api_response has returned what lines 84-87 return as it is: the
\* argument without the blanks around it, with the value of the argument
ReturnedAsItIs ==
  /\ clean_out = Strip(clean_in.text)
  /\ ValidJson(clean_out)
  /\ json_loads(clean_out).v = json_loads(clean_in.text).v

\* C13, as it is claimed: clean_api_response gives every valid JSON text
\* back without the blanks around it, with the same value, and applied to
\* its own result it changes nothing, whatever the text.
C13_IdempotentOnValidJson ==
  /\ (clean_pc \in { "cleaned", "again" } /\ ValidJson(clean_in.text)) =>
       ReturnedAsItIs
  /\ clean_pc = "again" => clean_again = clean_out

\* C13, amended: clean_api_response gives every valid JSON text whose
\* value is an object back without the blanks around it, with the same
\* value; applied to its own result it changes nothing whenever that
\* result neither begins nor ends with a code fence, which is so for every
\* valid JSON text.
C13_IdempotentOnJsonObject ==
  /\ (clean_pc \in { "cleaned", "again" } /\ JsonObject(clean_in.text)) =>
       ReturnedAsItIs
  /\ (clean_pc \in { "cleaned", "again" } /\ ValidJson(clean_in.text)) =>
       ~StartsWith(clean_out, FENCE) /\ ~EndsWith(clean_out, FENCE)
  /\ (/\ clean_pc = "again"
      /\ ~StartsWith(clean_out, FENCE)
      /\ ~EndsWith(clean_out, FENCE)) =>
       clean_again = clean_out

\* C13: the record on several lines, with objects inside it, given back as
\* it is and left alone by a second call
C13_Witness ==
  /\ clean_pc = "again"
  /\ clean_in = RawInput(R_RECORD)
  /\ JsonObject(clean_in.text)
  /\ clean_out = R_RECORD
  /\ clean_again = R_RECORD

\* clean_api_response has returned a text with the value of the record
\* that was wrapped
RecoversObject ==
  ValidJson(clean_out) /\ json_loads(clean_out).v = clean_in.object

\* line.strip().startswith('{') and line.strip().endswith('}') for a line
\* taken alone
ProseOpens(line) == LineOpens(line, 1)
ProseCloses(line) == LineCloses(line, Len(line))

\* C14, as it is claimed: a record in a code fence, with lines of prose
\* before the fence and possibly after it, is given back as a text with the
\* value of the record, whatever the lines of prose hold.
C14_RoundTripAnyProse ==
  (clean_pc \in { "cleaned", "again" } /\ clean_in.wrapped) => RecoversObject

\* C14, amended: a record in a code fence, with lines of prose before the
\* fence and possibly after it, is given back as a text with the value of
\* the record when no line before the fence begins with '{' and no line
\* after it ends with '}', blanks aside; braces elsewhere in the prose and
\* code fences in the prose do no harm.
C14_RoundTripPlainProse ==
  (/\ clean_pc \in { "cleaned", "again" }
   /\ clean_in.wrapped
   /\ \A i \in 1..Len(clean_in.lead) : ~ProseOpens(clean_in.lead[i])
   /\ \A i \in 1..Len(clean_in.trail) : ~ProseCloses(clean_in.trail[i]))
    => RecoversObject

\* C14: the record on several lines in a json fence, after a line that
\* ends with '}' and before a line that begins with '{', given back whole
C14_Witness ==
  /\ clean_pc = "cleaned"
  /\ clean_in.wrapped
  /\ StartsWith(clean_in.text, clean_in.lead[1] \o << NL >> \o FENCE_JSON)
  /\ ProseCloses(clean_in.lead[1])
  /\ clean_in.trail # << >>
  /\ ProseOpens(clean_in.trail[1])
  /\ clean_in.object = llm_record
  /\ clean_out = R_RECORD

\* ------------------------------- the claims on the unreachable service

\* no request to the service has been answered: each has ended in a
\* timeout or in another error of the connection
NoServiceReachable ==
  /\ g_pc = "returned"
  /\ \A i \in 1..Len(answers) :
       answers[i].kind \in { "timeout", "request_error" }

\* the text holds "CP503C" and "$1,234.56"
HoldsBoth(t) == Contains(t, CP503C) /\ Contains(t, AMOUNT)

\* what call_gemini_api has returned is a record with the code and the
\* amount
RecordHasBoth ==
  /\ summary_json.some
  /\ JsonObject(summary_json.text)
  /\ LET record == json_loads(summary_json.text).v
     IN  /\ HasKey(record, << "noticeType" >>)
         /\ GetKey(record, << "noticeType" >>) = JStr(CP503C)
         /\ HasKey(record, << "amountDue" >>)
         /\ GetKey(record, << "amountDue" >>) = JStr(AMOUNT)

\* "CP503C" is in the text with no letter after it, and no 'CP' and a
\* digit, in either case, is before it
CodeComesFirst(t) ==
  \E p \in 1..(Len(t) - Len(CP503C) + 1) :
    /\ SubSeq(t, p, p + Len(CP503C) - 1) = CP503C
    /\ p + Len(CP503C) <= Len(t) => t[p + Len(CP503C)] \notin LetterChars
    /\ \A q \in 1..(p - 1) :
         ~(/\ Lower(SubSeq(t, q, q + 1)) = << "c", "p" >>
           /\ t[q + 2] \in DigitChars)

\* no 'Letter ' and a digit, in either case, is in the text
NoLetterCode(t) ==
  \A q \in 1..(Len(t) - 7) :
    ~(/\ Lower(SubSeq(t, q, q + 6)) = << "l", "e", "t", "t", "e", "r", SP >>
      /\ t[q + 7] \in DigitChars)

\* "$1,234.56" is in the text with no digit after it, and no '$' and a digit
\* or a comma is before it
AmountComesFirst(t) ==
  \E p \in 1..(Len(t) - Len(AMOUNT) + 1) :
    /\ SubSeq(t, p, p + Len(AMOUNT) - 1) = AMOUNT
    /\ p + Len(AMOUNT) <= Len(t) => t[p + Len(AMOUNT)] \notin DigitChars
    /\ \A q \in 1..(p - 1) :
         ~(t[q] = "$" /\ t[q + 1] \in DigitChars \cup { "," })

\* C15, as it is claimed: for every text that holds "CP503C" and
\* "$1,234.56", when no request to the service is answered, call_gemini_api
\* returns a record with noticeType "CP503C" and amountDue "$1,234.56".
C15_FallbackFindsBoth ==
  (NoServiceReachable /\ raw_text.some /\ HoldsBoth(raw_text.text)) =>
    RecordHasBoth

\* C15, amended: with GEMINI_API_KEY set, for every text of 50 characters
\* or more in which "CP503C" is the first notice code (no 'CP' and a digit
\* before it, no letter after it), in which there is no 'Letter ' and a
\* digit, and in which "$1,234.56" is the first amount (no '$' and a digit
\* or a comma before it, no digit after it), when each of the three
\* requests ends in a timeout or in an error of the connection,
\* call_gemini_api returns a record with noticeType "CP503C" and amountDue
\* "$1,234.56".
C15_FallbackFindsFirst ==
  (/\ NoServiceReachable
   /\ api_key
   /\ raw_text.some
   /\ Len(Strip(raw_text.text)) >= MinAnalysisLen
   /\ CodeComesFirst(raw_text.text)
   /\ NoLetterCode(raw_text.text)
   /\ AmountComesFirst(raw_text.text)) =>
    /\ Len(answers) = max_retries
    /\ RecordHasBoth

\* C15: three requests without an answer for the notice, and the record of
\* the fallback with its code and its amount
C15_Witness ==
  /\ g_pc = "returned"
  /\ api_key
  /\ Len(answers) = max_retries
  /\ \A i \in 1..Len(answers) :
       answers[i].kind \in { "timeout", "request_error" }
  /\ raw_text = Some(clean_extracted_text(T_NOTICE \o << NL, NL >>))
  /\ CodeComesFirst(raw_text.text)
  /\ AmountComesFirst(raw_text.text)
  /\ via = "fallback_exhausted"
  /\ RecordHasBoth

\* ------------------------------------ the claims on the pages of the OCR

\* what the page adds to the text of the OCR: what is read on it and "\n\n",
\* when it is rendered and read and the text is not blank
OcrPageText(kind) ==
  LET p == Page(kind)
  IN  IF p.load /\ p.pix /\ ~p.ocr.raises /\ Strip(p.ocr.text) # << >>
        THEN p.ocr.text \o << NL, NL >>
        ELSE << >>

\* the first n pages: what they add, in the order of the pages, and how
\* many of them add something
OcrTextUpTo(n) ==
  Concat([i \in 1..n |-> OcrPageText(pdf_bytes.pages[i])])
OcrPagesUpTo(n) ==
  Cardinality({ i \in 1..n : OcrPageText(pdf_bytes.pages[i]) # << >> })

\* C16: extract_text_with_ocr goes through the pages in their order and
\* through all of them, whatever fails on a page: a page that cannot be
\* rendered or read adds nothing, and the text and the count are those of
\* the pages before the current one that were read with a text that is not
\* blank. When the libraries are there it returns None if no page was read
\* so, and else the cleaned concatenation of the texts of the pages read so,
\* in their order; it returns None only when no page was read so.
C16_OcrSkipsFailedPages ==
  /\ pc \in { "ocr_loop", "ocr_recognize" } =>
       /\ ocr_page_num <= NumPages
       /\ pc = "ocr_recognize" => ocr_page_num < NumPages
       /\ ocr_extracted_text = OcrTextUpTo(ocr_page_num)
       /\ successful_pages = OcrPagesUpTo(ocr_page_num)
  /\ (pc \in { "ocr_return", "done" } /\ ocr_env = "ok") =>
       /\ ocr_page_num = NumPages
       /\ ~ocr_raised
       /\ ocr_text = IF OcrPagesUpTo(NumPages) > 0
                       THEN Some(clean_extracted_text(OcrTextUpTo(NumPages)))
                       ELSE NoneStr
  /\ (pc \in { "ocr_return", "done" } /\ OcrCalled /\ ~ocr_text.some) =>
       successful_pages = 0

\* C16: of three pages the first cannot be rendered and the third cannot be
\* read; the text of the second is returned
C16_Witness ==
  /\ pc = "ocr_return"
  /\ pdf_bytes.pages = << "artifact", "scan", "layout" >>
  /\ ocr_env = "ok"
  /\ ocr_error
  /\ successful_pages = 1
  /\ ocr_text = Some(clean_extracted_text(O_NOTICE \o << NL, NL >>))

\* ------------------------------ the claims on the strategies of a page

\* what the n-th strategy gives for a page of the kind: the standard text,
\* the text put together from the dict, the text with the layout kept
StrategyOutput(kind, n) ==
  LET p == Page(kind)
  IN  IF n = 1 THEN p.m1
      ELSE IF n = 2
        THEN IF p.m2.raises THEN Raises
             ELSE Returns(extract_text_from_dict(p.m2.dict))
      ELSE p.m3

\* the n-th strategy gives a text that is not blank and does not raise
Yields(kind, n) ==
  /\ ~StrategyOutput(kind, n).raises
  /\ Strip(StrategyOutput(kind, n).text) # << >>

\* the strategies that are to run on a page of the kind: the first, and each
\* other when none before it yields
StrategiesDue(kind) ==
  { n \in 1..3 : \A m \in 1..(n - 1) : ~Yields(kind, m) }

\* the text is that of the first strategy that yields, if one does
FirstYield(kind, text) ==
  \A n \in 1..3 :
    (Yields(kind, n) /\ \A m \in 1..(n - 1) : ~Yields(kind, m)) =>
      text = StrategyOutput(kind, n).text

\* the direct loop is under way
InDirectLoop == pc \in { "loop", "m1", "m2", "m3", "append" }

\* C17: on each page the strategies run in the order standard, dict,
\* layout, a later one only when each earlier one has raised or given a
\* blank text; what the page adds is the text of the first strategy that
\* gives a text that is not blank; pages_with_text counts each page at most
\* once and is never above the number of pages; and the aggregate holds
\* what the pages add in the order of the pages.
C17_StrategiesInOrder ==
  /\ pc = "m1" => tried = { }
  /\ pc = "m2" => tried = { 1 }
  /\ pc = "m3" =>
       tried = StrategiesDue(pdf_bytes.pages[page_num + 1]) \ { 3 }
  /\ pc = "append" =>
       /\ tried = StrategiesDue(pdf_bytes.pages[page_num + 1])
       /\ FirstYield(pdf_bytes.pages[page_num + 1], page_text)
  /\ InDirectLoop =>
       /\ Len(page_log) = page_num
       /\ \A k \in 1..Len(page_log) :
            FirstYield(pdf_bytes.pages[k], page_log[k])
       /\ extracted_text =
            Concat([k \in 1..Len(page_log) |-> page_log[k] \o << NL, NL >>])
       /\ pages_with_text =
            Cardinality({ k \in 1..Len(page_log) :
                            Strip(page_log[k]) # << >> })
              + (IF pc \in { "m2", "m3", "append" }
                      /\ Strip(page_text) # << >>
                   THEN 1 ELSE 0)
  /\ pages_with_text <= NumPages

\* C17: on the second page the standard strategy has raised and the dict
\* strategy has given a text, so the layout strategy was not run; the text
\* of the first page is in the aggregate
C17_Witness ==
  /\ pc = "append"
  /\ pdf_bytes.pages = << "native", "short" >>
  /\ page_num = 1
  /\ tried = { 1, 2 }
  /\ page_text = StrategyOutput("short", 2).text
  /\ Strip(page_text) # << >>
  /\ pages_with_text = 2
  /\ extracted_text = T_NOTICE \o << NL, NL >>

====
